---- MODULE Spec2Model ----
(***************************************************************************)
(* A model of pybran: the atomic id allocators and the mirrored Registry   *)
(* (pybran/decorators.py), the `synchronized` wrapper that guards them     *)
(* (pybran/synchronized.py), schema registration (register_class,          *)
(* register_field, register_alias, refresh), the codecs                    *)
(* (pybran/serializers.py) and the dispatcher (pybran/loaders.py).         *)
(*                                                                         *)
(* Python values are tagged tuples <<tag, payload>>, so that one dict can  *)
(* hold keys of several Python types, as Registry.registry does.  A Python *)
(* dict is a sequence of <<key, value>> pairs in insertion order.          *)
(***************************************************************************)
EXTENDS Integers, Sequences, FiniteSets, TLC

VARIABLES
    \* ---- the Id allocator under threads (SpecId) -----------------------
    id,         \* Id._instance._id
    idLock,     \* the threading.Lock of class Id: TRUE when locked
    idPc,       \* idPc[t]: where thread t is in its call
    idOp,       \* idOp[t]: "get_id" or "reset", the method thread t calls
    idHeld,     \* idHeld[t]: thread t entered `with lock` and must release
    idTmp,      \* idTmp[t]: the value of self._id thread t loaded
    idRet       \* idRet[t]: what get_id returned to thread t (0: nothing yet)

VARIABLES
    \* ---- the global registries and allocators, called sequentially ------
    type_registry,  \* type_registry.registry: type -> id and id -> type
    typeId,         \* TypeId._instance._id
    regLast         \* the last Registry call made directly: its arguments, whether
                    \* the key was present before it (had), and its outcome

VARIABLES
    \* ---- one Registry under threads (SpecConc) ---------------------------
    creg,       \* the Registry's dict, self.registry
    cLock,      \* the threading.Lock of class Registry: TRUE when locked
    aLocks,     \* the threading.Locks of classes NameId and Id: TRUE when locked
    cGen,       \* how many times default_value_generator has been called
    cStack,     \* cStack[t]: thread t's stack of calls to Registry methods
    cOp,        \* cOp[t]: the call thread t made
    cRet        \* cRet[t]: how thread t's call ended

VARIABLES
    \* ---- the schema registry (SpecSchema) --------------------------------
    class_registry, \* class_registry.registry: class -> ClassDefinition and back
    fieldsOf,       \* fieldsOf[c]: class_registry.get(c).fields.registry
    aliasesOf,      \* aliasesOf[c]: class_registry.get(c).aliases.registry
    nameId,         \* NameId._instance._id
    members,        \* members[c]: the members class c declares (cls.__dict__)
    refreshed,      \* TRUE iff the schema operation called last was refresh()
    schLast         \* the register_class(cls, ignore=[name]) call, when it was the
                    \* schema operation called last: its arguments, how it ended

VARIABLES
    \* ---- one Loader and its calls (SpecCodec) ----------------------------
    serializer_registry,    \* Loader.serializer_registry: type -> codec class
    call,                   \* the last serialize call, and the deserialize call that followed it
    calls,                  \* how many calls were made: serialize, and deserialize with
                            \* other arguments than the serialize call's
    decoded                 \* the deserialize(stream, cls, tagging=…) call made last on the
                            \* last serialize call's bytes, if one was made

VARIABLES
    \* ---- the three allocators, called sequentially (SpecAlloc) -----------
    instance,   \* instance[k]: class k's _instance attribute is set
    issued,     \* issued[k]: what the last get_id() on allocator k returned
                \* since k's last reset() (0: nothing since then)
    allocLast   \* the allocator call made last, and what it returned

VARIABLES
    \* ---- two Loaders made with Loader() (SpecPool) -----------------------
    serializer_pool,    \* serializer_pool[l]: Loader l's _serializer_pool,
                        \* codec class -> instance
    created,            \* created[l][c]: how many instances of codec class c
                        \* Loader l has made
    handed,             \* handed[l]: for each codec class, the instance
                        \* get_serializer gave out first
    poolLast            \* the Loader call made last, and what it returned

VARIABLES
    \* ---- the files a Loader reads and writes (SpecFile) -------------------
    files,      \* files[p]: what is at path p, and the bytes of a file
    fileLast    \* the read or write call made last, and how it went

VARIABLES
    \* ---- the schema registry under threads (SpecRegisterConc, SpecRefreshConc)
    rc,     \* rc[t]: where thread t is in its register_class call, and the
            \* call's local dicts `fields` and `aliases`
    rf,     \* where the thread that calls refresh() is, and its local `classes`
    seen    \* what the last lookup by the reading thread gave

idVars == <<id, idLock, idPc, idOp, idHeld, idTmp, idRet>>
allocVars == <<instance, issued, allocLast>>
poolVars == <<serializer_pool, created, handed, poolLast>>
fileVars == <<files, fileLast>>
rcVars == <<rc, rf, seen>>
regVars == <<type_registry, typeId, regLast>>
concVars == <<creg, cLock, aLocks, cGen, cStack, cOp, cRet>>
schVars == <<class_registry, fieldsOf, aliasesOf, nameId, members, refreshed, schLast>>

codecVars == <<serializer_registry, call, calls, decoded>>

vars == <<idVars, regVars, concVars, schVars, codecVars, allocVars, poolVars, fileVars, rcVars>>

\* ------------------------------------------------------------------ bounds
NThreads == 3
MaxId == 3
NRegThreads == 2
MaxCalls == 2

Threads == 1..NThreads

\* ------------------------------------------------------------ Python values
None == <<"None", 0>>
IntV(n) == <<"int", n>>
TypeV(name) == <<"type", name>>
BoolV(b) == <<"bool", b>>
\* A str: the sequence of its characters' code points.
StrV(chars) == <<"str", chars>>
\* A float: the fields of its IEEE-754 double, the 52-bit fraction in three
\* parts (hi: 20 bits, mid and lo: 16 bits each).
FloatV(neg, exp, hi, mid, lo) ==
    <<"float", [neg |-> neg, exp |-> exp, hi |-> hi, mid |-> mid, lo |-> lo]>>
ListV(items) == <<"list", items>>
TupleV(items) == <<"tuple", items>>
\* A set: its elements in iteration order.
SetV(items) == <<"set", items>>
DictV(pairs) == <<"dict", pairs>>
\* An instance of class cls: attrs is its __dict__.
ObjV(cls, attrs) == <<"obj", <<cls[2], attrs>>>>
\* A Field object, as a class attribute that no registration has unwrapped.
FieldV == <<"Field", 0>>

\* register_class line 298: `val if isinstance(val, type) else type(val)`.
\* A value's tag is the name of its Python type; an instance of a class
\* carries the class's name.
ValType(val) ==
    IF val[1] = "type" THEN val
    ELSE IF val[1] = "obj" THEN TypeV(val[2][1])
    ELSE TypeV(val[1])

\* dict.__contains__
DictHas(d, key) == \E i \in 1..Len(d) : d[i][1] = key

\* dict.get: the value stored under key, None when there is none.
DictGet(d, key) ==
    IF DictHas(d, key)
    THEN d[CHOOSE i \in 1..Len(d) : d[i][1] = key][2]
    ELSE None

\* dict.__setitem__: an existing key keeps its place, a new one goes last.
DictSet(d, key, value) ==
    IF DictHas(d, key)
    THEN [i \in 1..Len(d) |-> IF d[i][1] = key THEN <<key, value>> ELSE d[i]]
    ELSE Append(d, <<key, value>>)

\* dict.pop(key) of a present key: the dict without it.
DictPop(d, key) ==
    LET i == CHOOSE j \in 1..Len(d) : d[j][1] = key
    IN SubSeq(d, 1, i - 1) \o SubSeq(d, i + 1, Len(d))

DictKeys(d) == [i \in 1..Len(d) |-> d[i][1]]

\* A wrapper without lines 33-34: every call takes the lock.
synced_func_always_locks(locked) == FALSE

\* --------------------------------------------------- pybran/synchronized.py
\* synced_func, line 33: `if hasattr(func, "__lock__") and
\* getattr(func, "__lock__").locked(): return func(*args, **kwargs)`.
\* TRUE when the call runs func without taking the lock.  threading.Lock has
\* no owner, so the test cannot tell the caller's own outer call from
\* another thread's.
synced_func_bypass(locked) == locked

\* What the actions of one part of the model leave alone.
IdFrame == UNCHANGED <<regVars, concVars, schVars, codecVars, allocVars, poolVars, fileVars, rcVars>>
RegFrame == UNCHANGED <<idVars, concVars, schVars, codecVars, allocVars, poolVars, fileVars, rcVars>>
ConcFrame == UNCHANGED <<idVars, regVars, schVars, codecVars, allocVars, poolVars, fileVars, rcVars>>
SchFrame == UNCHANGED <<idVars, concVars, regLast, codecVars, allocVars, poolVars, fileVars, rcVars>>

\* ------------------------------------------------ Id under threads (SpecId)
IdIdle ==
    /\ id = 0
    /\ idLock = FALSE
    /\ idPc = [t \in Threads |-> "idle"]
    /\ idOp = [t \in Threads |-> "none"]
    /\ idHeld = [t \in Threads |-> FALSE]
    /\ idTmp = [t \in Threads |-> 0]
    /\ idRet = [t \in Threads |-> 0]

\* A thread invokes Id().get_id() or Id().reset(): the synced_func wrapper
\* starts.
IdCall(t, o) ==
    /\ idPc[t] = "idle"
    /\ idPc' = [idPc EXCEPT ![t] = "check"]
    /\ idOp' = [idOp EXCEPT ![t] = o]
    /\ UNCHANGED <<id, idLock, idHeld, idTmp, idRet>>
    /\ IdFrame

\* synced_func lines 33-34: the locked() test.
IdCheck(t) ==
    /\ idPc[t] = "check"
    /\ idPc' = [idPc EXCEPT ![t] =
                  IF synced_func_bypass(idLock)
                  THEN (IF idOp[t] = "get_id" THEN "load" ELSE "zero")
                  ELSE "acquire"]
    /\ UNCHANGED <<id, idLock, idOp, idHeld, idTmp, idRet>>
    /\ IdFrame

\* synced_func line 36: `with getattr(func, "__lock__")` blocks until the
\* lock is free, then takes it.
IdAcquire(t) ==
    /\ idPc[t] = "acquire"
    /\ idLock = FALSE
    /\ idLock' = TRUE
    /\ idHeld' = [idHeld EXCEPT ![t] = TRUE]
    /\ idPc' = [idPc EXCEPT ![t] = IF idOp[t] = "get_id" THEN "load" ELSE "zero"]
    /\ UNCHANGED <<id, idOp, idTmp, idRet>>
    /\ IdFrame

\* Id.get_id line 34, `self._id += 1`: the read of self._id ...
IdLoad(t) ==
    /\ idPc[t] = "load"
    /\ idTmp' = [idTmp EXCEPT ![t] = id]
    /\ idPc' = [idPc EXCEPT ![t] = "store"]
    /\ UNCHANGED <<id, idLock, idOp, idHeld, idRet>>
    /\ IdFrame

\* ... and the write of the incremented value.
IdStore(t) ==
    /\ idPc[t] = "store"
    /\ id' = idTmp[t] + 1
    /\ idPc' = [idPc EXCEPT ![t] = "fetch"]
    /\ UNCHANGED <<idLock, idOp, idHeld, idTmp, idRet>>
    /\ IdFrame

\* Id.get_id line 36: `return self._id`, a second read.
IdFetch(t) ==
    /\ idPc[t] = "fetch"
    /\ idRet' = [idRet EXCEPT ![t] = id]
    /\ idPc' = [idPc EXCEPT ![t] = "exit"]
    /\ UNCHANGED <<id, idLock, idOp, idHeld, idTmp>>
    /\ IdFrame

\* Id.reset line 42: `self._id = 0`.
IdZero(t) ==
    /\ idPc[t] = "zero"
    /\ id' = 0
    /\ idPc' = [idPc EXCEPT ![t] = "exit"]
    /\ UNCHANGED <<idLock, idOp, idHeld, idTmp, idRet>>
    /\ IdFrame

\* The wrapper returns; leaving `with` releases the lock if this call took it.
IdExit(t) ==
    /\ idPc[t] = "exit"
    /\ idLock' = IF idHeld[t] THEN FALSE ELSE idLock
    /\ idHeld' = [idHeld EXCEPT ![t] = FALSE]
    /\ idPc' = [idPc EXCEPT ![t] = "done"]
    /\ UNCHANGED <<id, idOp, idTmp, idRet>>
    /\ IdFrame

IdNext ==
    \E t \in Threads :
        \/ \E o \in {"get_id", "reset"} : IdCall(t, o)
        \/ IdCheck(t)
        \/ IdAcquire(t)
        \/ IdLoad(t)
        \/ IdStore(t)
        \/ IdFetch(t)
        \/ IdZero(t)
        \/ IdExit(t)

\* ------------------------------------------- pybran/decorators.py: Id, Registry
\* Id.get_id called by one thread: the counter after `self._id += 1`, which
\* is also the value returned.
get_id(counter) == counter + 1

\* Registry.contains
RegContains(r, key) == DictHas(r, key)

\* Registry.set
RegSet(r, key, value) == DictSet(r, key, value)

\* Registry.add without line 132: the reverse entry is not stored.
RegAdd_one_way(r, key, value, gen) ==
    IF DictHas(r, key) THEN r
    ELSE DictSet(r, key, IF value = None THEN gen ELSE value)

\* Registry.add(key, value): `gen` is what default_value_generator(key)
\* returns if it is called.  Nothing happens for a key already present;
\* otherwise key -> value is stored and then, through self.get(key), the
\* reverse entry value -> key.
RegAdd(r, key, value, gen) ==
    IF RegContains(r, key)
    THEN r
    ELSE LET v == IF value = None THEN gen ELSE value
             r1 == RegSet(r, key, v)
         IN RegSet(r1, DictGet(r1, key), key)

\* Registry.add calls the generator: the key is absent and no value is given.
RegAddGenerates(r, key, value) == ~RegContains(r, key) /\ value = None

\* Registry.get without lines 112-113: an absent key raises nothing.
RegGetRaises_never(r, key, autoregister) == FALSE

\* Registry.get raises BranRegistrationException.
RegGetRaises(r, key, autoregister) == ~RegContains(r, key) /\ ~autoregister

\* Registry.get without the test of line 109: an autoregistering get
\* generates a value for a key already present too.
RegAfterGet_regenerates(r, key, autoregister, gen) ==
    IF autoregister THEN DictSet(DictSet(r, key, gen), gen, key) ELSE r

\* The registry after Registry.get(key, autoregister) returned.
RegAfterGet(r, key, autoregister, gen) ==
    IF ~RegContains(r, key) /\ autoregister THEN RegAdd(r, key, None, gen) ELSE r

\* A Registry.remove that takes the reverse entry out as well
RegRemove_both(r, key) ==
    IF DictHas(r, key) THEN DictPop(DictPop(r, key), DictGet(r, key)) ELSE r

\* Registry.remove: the registry afterwards.
RegRemove(r, key) == IF RegContains(r, key) THEN DictPop(r, key) ELSE r

\* ------------------------------ direct calls on the global type_registry
RegKeys == {TypeV("int"), TypeV("str"), IntV(1), IntV(2)}
RegValues == {IntV(1), IntV(2), TypeV("int")}

RegIdle ==
    /\ type_registry = <<>>
    /\ typeId = 0
    /\ regLast = [op |-> "none", key |-> None, value |-> None, auto |-> FALSE,
                  had |-> FALSE, ret |-> None, raised |-> FALSE, generated |-> FALSE]

\* type_registry.add(key, value); value = None is add(key).
TRAdd(key, value) ==
    LET g == RegAddGenerates(type_registry, key, value) IN
    /\ g => typeId < MaxId
    /\ type_registry' = RegAdd(type_registry, key, value, IntV(get_id(typeId)))
    /\ typeId' = IF g THEN get_id(typeId) ELSE typeId
    /\ regLast' = [op |-> "add", key |-> key, value |-> value, auto |-> FALSE,
                   had |-> RegContains(type_registry, key), ret |-> None,
                   raised |-> FALSE, generated |-> g]

\* type_registry.get(key, autoregister)
TRGet(key, autoregister) ==
    LET raises == RegGetRaises(type_registry, key, autoregister)
        g == ~RegContains(type_registry, key) /\ autoregister
        after == RegAfterGet(type_registry, key, autoregister, IntV(get_id(typeId)))
    IN
    /\ g => typeId < MaxId
    /\ type_registry' = IF raises THEN type_registry ELSE after
    /\ typeId' = IF g THEN get_id(typeId) ELSE typeId
    /\ regLast' = [op |-> "get", key |-> key, value |-> None, auto |-> autoregister,
                   had |-> RegContains(type_registry, key),
                   ret |-> IF raises THEN None ELSE DictGet(after, key),
                   raised |-> raises, generated |-> g]

\* type_registry.clear()
TRClear ==
    /\ type_registry # <<>>
    /\ type_registry' = <<>>
    /\ typeId' = typeId
    /\ regLast' = [op |-> "clear", key |-> None, value |-> None, auto |-> FALSE,
                   had |-> FALSE, ret |-> None, raised |-> FALSE, generated |-> FALSE]

\* type_registry.remove(key): the value popped, None for an absent key
TRRemove(key) ==
    /\ type_registry' = RegRemove(type_registry, key)
    /\ typeId' = typeId
    /\ regLast' = [op |-> "remove", key |-> key, value |-> None, auto |-> FALSE,
                   had |-> RegContains(type_registry, key),
                   ret |-> DictGet(type_registry, key),
                   raised |-> FALSE, generated |-> FALSE]

RegNext ==
    \/ \E key \in RegKeys, value \in RegValues \cup {None} :
          TRAdd(key, value) /\ RegFrame
    \/ \E key \in RegKeys, autoregister \in BOOLEAN :
          TRGet(key, autoregister) /\ RegFrame
    \/ TRClear /\ RegFrame

\* The calls with remove among them, on fewer keys: remove multiplies the
\* orders in which the dict can hold its entries.
RemoveKeys == {TypeV("int"), TypeV("str"), IntV(1)}
RemoveValues == {IntV(1)}
RegRemoveNext ==
    \/ \E key \in RemoveKeys, value \in RemoveValues \cup {None} :
          TRAdd(key, value) /\ RegFrame
    \/ \E key \in RemoveKeys : TRRemove(key) /\ RegFrame

\* ---------------------------- pybran/decorators.py: schema registration
\* The classes, the field names and the explicit aliases of the model.
ClassA == TypeV("A")
ClassB == TypeV("B")
Classes == {ClassA, ClassB}
\* class C(A): pass -- a subclass that declares nothing of its own, as
\* InheritFields(ClassCustomAliases) of the tests.
ClassC == TypeV("C")
Subclasses == {ClassC}
Base == [c \in Subclasses |-> ClassA]
AllClasses == Classes \cup Subclasses
\* The classes of the nested-struct scenario, after NestedObject and
\* NestedObjectWithReferencesOnly of tests/test_serializers.py:
\*   class Nested:      x = field(1)
\*   class NestedLast:  test1 = field(7); test2 = field(Nested())
\*   class NestedFirst: test2 = field(Nested()); test1 = field(7)
ClassNested == TypeV("Nested")
ClassNestedLast == TypeV("NestedLast")
ClassNestedFirst == TypeV("NestedFirst")
NestedClasses == {ClassNested, ClassNestedLast, ClassNestedFirst}
ClassDomain == AllClasses \cup NestedClasses
NameTest1 == StrV(<<116, 49>>)
NameTest2 == StrV(<<116, 50>>)
NameX == StrV(<<120>>)
NameY == StrV(<<121>>)
NameZ == StrV(<<122>>)
AliasK == StrV(<<107>>)
AliasJ == StrV(<<106>>)
Float21 == FloatV(FALSE, 1024, 52428, 52428, 52429)     \* 2.1

\* What the classes declare: a member wrapped by field(val, alias) is marked.
\*   class A: x = field(1); y = field("s", alias="k"); z = 2
\*   class B: x = field([2.1])
\* cls.__dict__ of the subclass C holds no member of its base class.
Declared ==
    [c \in ClassDomain |->
        IF c \in Subclasses THEN <<>>
        ELSE IF c = ClassNested
        THEN <<[name |-> NameX, marked |-> TRUE, val |-> IntV(1), alias |-> None]>>
        ELSE IF c = ClassNestedLast
        THEN <<[name |-> NameTest1, marked |-> TRUE, val |-> IntV(7), alias |-> None],
               [name |-> NameTest2, marked |-> TRUE,
                val |-> ObjV(ClassNested, <<>>), alias |-> None]>>
        ELSE IF c = ClassNestedFirst
        THEN <<[name |-> NameTest2, marked |-> TRUE,
                val |-> ObjV(ClassNested, <<>>), alias |-> None],
               [name |-> NameTest1, marked |-> TRUE, val |-> IntV(7), alias |-> None]>>
        ELSE IF c = ClassA
        THEN <<[name |-> NameX, marked |-> TRUE, val |-> IntV(1), alias |-> None],
               [name |-> NameY, marked |-> TRUE, val |-> StrV(<<115>>), alias |-> AliasK],
               [name |-> NameZ, marked |-> FALSE, val |-> IntV(2), alias |-> None]>>
        ELSE <<[name |-> NameX, marked |-> TRUE, val |-> ListV(<<Float21>>), alias |-> None]>>]

\* The explicit field maps and alias maps register_class is called with.
FieldMaps ==
    {<<>>, <<<<NameY, StrV(<<115>>)>>, <<NameX, ClassB>>>>}
AliasMaps == {<<>>, <<<<NameX, AliasJ>>>>}

\* The types looked up with autoregister=True (by the codecs, or directly).
LookupTypes == {TypeV("float")}

\* ClassDefinition(cls), as the key of the reverse entry of class_registry.
CDef(cls) == <<"cdef", cls[2]>>

\* The parameters of register_class (decorators.py line 254).
RegisterClassParams == {"cls", "fields", "aliases"}

NoKeywordCall == [made |-> FALSE, cls |-> None, ignore |-> None, err |-> "none"]

SchIdle ==
    /\ class_registry = <<>>
    /\ fieldsOf = [c \in ClassDomain |-> <<>>]
    /\ aliasesOf = [c \in ClassDomain |-> <<>>]
    /\ nameId = 0
    /\ members = Declared
    /\ refreshed = FALSE
    /\ schLast = NoKeywordCall

\* The registries and allocators as one record, which the operations below
\* take and give back.
Sch ==
    [creg |-> class_registry, fields |-> fieldsOf, aliases |-> aliasesOf,
     treg |-> type_registry, tid |-> typeId, nid |-> nameId, members |-> members]

\* A class_registry.add that gives a registered class a new ClassDefinition
ClassAdd_replaces(s, cls) ==
    [s EXCEPT !.creg = IF RegContains(@, cls) THEN @ ELSE RegAdd(@, cls, None, CDef(cls)),
              !.fields[cls] = <<>>,
              !.aliases[cls] = <<>>]

\* class_registry.add(cls): a class not yet there gets a new ClassDefinition,
\* with two empty registries (lines 197-208, 215).
ClassAdd(s, cls) ==
    IF RegContains(s.creg, cls) THEN s
    ELSE [s EXCEPT !.creg = RegAdd(@, cls, None, CDef(cls)),
                   !.fields[cls] = <<>>,
                   !.aliases[cls] = <<>>]

\* A type_registry.add that gives a type already present a new id
TypeAdd_renumbers(s, t) ==
    [s EXCEPT !.treg = RegSet(RegSet(@, t, IntV(get_id(s.tid))), IntV(get_id(s.tid)), t),
              !.tid = get_id(@)]

\* type_registry.add(t), and type_registry.get(t, autoregister=True): the
\* generator is `lambda k: TypeId().get_id()` (line 216).
TypeAdd(s, t) ==
    IF RegContains(s.treg, t) THEN s
    ELSE [s EXCEPT !.treg = RegAdd(@, t, None, IntV(get_id(s.tid))),
                   !.tid = get_id(@)]

\* register_field, lines 313-314
register_field(s, cls, name, type) ==
    TypeAdd([s EXCEPT !.fields[cls] = RegSet(@, name, type)], type)

\* register_alias, line 331: aliases.add(name, alias); the generator of an
\* aliases registry is `lambda k: None` (line 205).
register_alias(s, cls, name, alias) ==
    [s EXCEPT !.aliases[cls] = RegAdd(@, name, alias, None)]

\* register_class lines 291-298, from the i-th field on: a field without an
\* alias gets NameId().get_id(), and every field is registered.  `al` is the
\* local dict `aliases`.
RECURSIVE FieldLoop(_, _, _, _, _)
FieldLoop(s, al, cls, fields, i) ==
    IF i > Len(fields) THEN [s |-> s, al |-> al]
    ELSE LET name == fields[i][1]
             needs == ~DictHas(al, name)
             al1 == IF needs THEN DictSet(al, name, IntV(get_id(s.nid))) ELSE al
             s1 == IF needs THEN [s EXCEPT !.nid = get_id(@)] ELSE s
         IN FieldLoop(register_field(s1, cls, name, ValType(fields[i][2])),
                      al1, cls, fields, i + 1)

\* register_class lines 300-301, from the i-th alias on.
RECURSIVE AliasLoop(_, _, _, _)
AliasLoop(s, al, cls, i) ==
    IF i > Len(al) THEN s
    ELSE AliasLoop(register_alias(s, cls, al[i][1], al[i][2]), al, cls, i + 1)

\* register_class lines 276-285, from the i-th member on: the marked members
\* become fields, and their explicit aliases go into `aliases`.
RECURSIVE ScanLoop(_, _, _, _)
ScanLoop(ms, found, al, i) ==
    IF i > Len(ms) THEN [found |-> found, al |-> al]
    ELSE IF ms[i].marked
         THEN ScanLoop(ms, DictSet(found, ms[i].name, ms[i].val),
                       IF ms[i].alias # None THEN DictSet(al, ms[i].name, ms[i].alias)
                       ELSE al,
                       i + 1)
         ELSE ScanLoop(ms, found, al, i + 1)

\* A register_class that leaves the Field markers on the class attributes
Unwrap_keeps_markers(ms) == ms

\* register_class lines 288-289: setattr(cls, name, val) takes the marker off.
Unwrap(ms) == [i \in 1..Len(ms) |-> [ms[i] EXCEPT !.marked = FALSE]]

\* register_class without `NameId().reset()` (line 273).
register_class_no_reset(s0, cls, fields, aliases) ==
    LET s2 == TypeAdd(ClassAdd(s0, cls), cls)
        scans == fields = <<>>
        scan == ScanLoop(s2.members[cls], <<>>, aliases, 1)
        flds == IF scans THEN scan.found ELSE fields
        expl == IF scans THEN scan.al ELSE aliases
        s3 == IF scans THEN [s2 EXCEPT !.members[cls] = Unwrap(@)] ELSE s2
        loop == FieldLoop(s3, expl, cls, flds, 1)
    IN [s |-> AliasLoop(loop.s, loop.al, cls, 1), fields |-> flds,
        explicit |-> expl, al |-> loop.al]

\* register_class(cls, fields, aliases): the state afterwards (s), the field
\* map it registered, the aliases it was given or found on the markers
\* (explicit) and its local dict `aliases` at the end (al).
register_class(s0, cls, fields, aliases) ==
    LET s1 == TypeAdd(ClassAdd(s0, cls), cls)
        s2 == [s1 EXCEPT !.nid = 0]
        scans == fields = <<>>
        scan == ScanLoop(s2.members[cls], <<>>, aliases, 1)
        flds == IF scans THEN scan.found ELSE fields
        expl == IF scans THEN scan.al ELSE aliases
        s3 == IF scans THEN [s2 EXCEPT !.members[cls] = Unwrap(@)] ELSE s2
        loop == FieldLoop(s3, expl, cls, flds, 1)
    IN [s |-> AliasLoop(loop.s, loop.al, cls, 1), fields |-> flds,
        explicit |-> expl, al |-> loop.al]

\* register_class(cls, **kw) as Python binds the call: a keyword that is no
\* parameter of the function (line 254) raises TypeError before the body
\* runs, so nothing is registered. fields and aliases default to None.
register_class_call(s0, cls, kw, fields, aliases) ==
    IF ~(kw \subseteq RegisterClassParams) THEN [s |-> s0, err |-> "TypeError"]
    ELSE [s |-> register_class(s0, cls,
                               IF "fields" \in kw THEN fields ELSE <<>>,
                               IF "aliases" \in kw THEN aliases ELSE <<>>).s,
          err |-> "none"]

\* A refresh that registers the snapshotted classes last first
RECURSIVE Reregister_backwards(_, _, _)
Reregister_backwards(s, snap, i) ==
    IF i > Len(snap) THEN s
    ELSE Reregister_backwards(
             register_class(s, snap[Len(snap) + 1 - i][1], snap[Len(snap) + 1 - i][2],
                            snap[Len(snap) + 1 - i][3]).s, snap, i + 1)

\* refresh lines 250-251: register the snapshotted classes again, in order.
RECURSIVE Reregister(_, _, _)
Reregister(s, snap, i) ==
    IF i > Len(snap) THEN s
    ELSE Reregister(register_class(s, snap[i][1], snap[i][2], snap[i][3]).s, snap, i + 1)

\* refresh without lines 241-242: the aliases are not carried over.
RECURSIVE Snapshot_without_aliases(_, _)
Snapshot_without_aliases(s, i) ==
    IF i > Len(s.creg) THEN <<>>
    ELSE LET cls == s.creg[i][1] IN
         (IF cls[1] = "type" THEN <<<<cls, s.fields[cls], <<>>>>>> ELSE <<>>)
             \o Snapshot_without_aliases(s, i + 1)

\* refresh lines 226-242: for every key of class_registry that is a type, its
\* fields and its aliases (both directions of every alias, as items() gives).
\* A snapshot that holds only the class registered first
Snapshot_first_only(s, i) ==
    IF s.creg = <<>> THEN <<>>
    ELSE <<<<s.creg[1][1], s.fields[s.creg[1][1]], s.aliases[s.creg[1][1]]>>>>

RECURSIVE Snapshot(_, _)
Snapshot(s, i) ==
    IF i > Len(s.creg) THEN <<>>
    ELSE LET cls == s.creg[i][1] IN
         (IF cls[1] = "type" THEN <<<<cls, s.fields[cls], s.aliases[cls]>>>> ELSE <<>>)
             \o Snapshot(s, i + 1)

\* refresh without `type_registry.clear()` (line 245).
refresh_keeps_types(s) ==
    LET snap == Snapshot(s, 1)
        cleared == [s EXCEPT !.creg = <<>>, !.tid = 0, !.nid = 0]
    IN Reregister(cleared, snap, 1)

\* refresh()
refresh(s) ==
    LET snap == Snapshot(s, 1)
        cleared == [s EXCEPT !.creg = <<>>, !.treg = <<>>, !.tid = 0, !.nid = 0]
    IN Reregister(cleared, snap, 1)

\* The variables take the values of record s.
SchBecomes(s) ==
    /\ class_registry' = s.creg
    /\ fieldsOf' = s.fields
    /\ aliasesOf' = s.aliases
    /\ type_registry' = s.treg
    /\ typeId' = s.tid
    /\ nameId' = s.nid
    /\ members' = s.members

RegisterClass(cls, fields, aliases) ==
    /\ SchBecomes(register_class(Sch, cls, fields, aliases).s)
    /\ refreshed' = FALSE
    /\ schLast' = NoKeywordCall
    /\ SchFrame

\* register_alias(cls, name, alias) on a registered class (class_registry.get
\* raises for any other).
RegisterAlias(cls, name, alias) ==
    /\ RegContains(class_registry, cls)
    /\ SchBecomes(register_alias(Sch, cls, name, alias))
    /\ refreshed' = FALSE
    /\ schLast' = NoKeywordCall
    /\ SchFrame

\* type_registry.get(t, autoregister=True)
Lookup(t) ==
    /\ SchBecomes(TypeAdd(Sch, t))
    /\ refreshed' = FALSE
    /\ schLast' = NoKeywordCall
    /\ SchFrame

Refresh ==
    /\ SchBecomes(refresh(Sch))
    /\ refreshed' = TRUE
    /\ schLast' = NoKeywordCall
    /\ SchFrame

\* @schema on a subclass: the class statement runs once, after its base
\* class was declared and registered.
RegisterSubclass(cls) ==
    /\ RegContains(class_registry, Base[cls])
    /\ ~RegContains(class_registry, cls)
    /\ SchBecomes(register_class(Sch, cls, <<>>, <<>>).s)
    /\ refreshed' = FALSE
    /\ schLast' = NoKeywordCall
    /\ SchFrame

\* register_class(cls, ignore=[name]) for a subclass, not registered so far,
\* of a registered class (test_decorators.py lines 188-191).
RegisterClassIgnore(cls, name) ==
    /\ RegContains(class_registry, Base[cls])
    /\ ~RegContains(class_registry, cls)
    /\ LET r == register_class_call(Sch, cls, {"ignore"}, <<>>, <<>>)
       IN /\ SchBecomes(r.s)
          /\ schLast' = [made |-> TRUE, cls |-> cls, ignore |-> name, err |-> r.err]
    /\ refreshed' = FALSE
    /\ SchFrame

SchNext ==
    \/ \E cls \in Classes, fields \in FieldMaps, aliases \in AliasMaps :
          RegisterClass(cls, fields, aliases)
    \/ \E cls \in Classes, name \in {NameY}, alias \in {AliasK, None} :
          RegisterAlias(cls, name, alias)
    \/ \E t \in LookupTypes : Lookup(t)
    \/ Refresh
    \/ \E cls \in Subclasses : RegisterSubclass(cls)
    \/ \E cls \in Subclasses, name \in {NameY} : RegisterClassIgnore(cls, name)

\* ------------------------------------------- the Python values of the codecs
\* type(v); the type of a type is `type`.
PyType(v) == IF v[1] = "type" THEN TypeV("type") ELSE ValType(v)

IsNum(v) == v[1] \in {"bool", "int"}
Num(v) == IF v[1] = "bool" THEN (IF v[2] THEN 1 ELSE 0) ELSE v[2]
IsNaN(v) == v[2].exp = 2047 /\ (v[2].hi # 0 \/ v[2].mid # 0 \/ v[2].lo # 0)
IsZero(v) == v[2].exp = 0 /\ v[2].hi = 0 /\ v[2].mid = 0 /\ v[2].lo = 0

\* a == b for a value and a value decoded from bytes (two distinct objects):
\* a bool equals the int of its value, a NaN equals nothing, the two zeros
\* are equal, a list never equals a tuple, a set or dict has no order, and
\* instances of a class without __eq__ are equal only when identical.  An
\* int and a float are compared nowhere: a decoded element has the type of
\* the element encoded, and no collection of the inputs holds a float next
\* to an int of the same value.
RECURSIVE PyEq(_, _)
PyEq(a, b) ==
    IF IsNum(a) /\ IsNum(b) THEN Num(a) = Num(b)
    ELSE IF a[1] # b[1] THEN FALSE
    ELSE IF a[1] = "float"
         THEN ~IsNaN(a) /\ ~IsNaN(b) /\ (a[2] = b[2] \/ (IsZero(a) /\ IsZero(b)))
    ELSE IF a[1] \in {"list", "tuple"}
         THEN /\ Len(a[2]) = Len(b[2])
              /\ \A i \in 1..Len(a[2]) : PyEq(a[2][i], b[2][i])
    ELSE IF a[1] = "set"
         THEN /\ Len(a[2]) = Len(b[2])
              /\ \A i \in 1..Len(a[2]) : \E j \in 1..Len(b[2]) : PyEq(a[2][i], b[2][j])
    ELSE IF a[1] = "dict"
         THEN /\ Len(a[2]) = Len(b[2])
              /\ \A i \in 1..Len(a[2]) : \E j \in 1..Len(b[2]) :
                    PyEq(a[2][i][1], b[2][j][1]) /\ PyEq(a[2][i][2], b[2][j][2])
    ELSE IF a[1] = "obj" THEN FALSE
    ELSE a = b

\* hash(v) raises TypeError: v cannot be an element of a set or a dict key.
Unhashable(v) == v[1] \in {"list", "set", "dict"}

\* set.add and dict.__setitem__ of the decoders, on elements in order.
SetAdd(items, v) ==
    IF \E i \in 1..Len(items) : PyEq(items[i], v) THEN items ELSE Append(items, v)
DictPut(pairs, k, v) ==
    IF \E i \in 1..Len(pairs) : PyEq(pairs[i][1], k)
    THEN [i \in 1..Len(pairs) |->
             IF PyEq(pairs[i][1], k) THEN <<pairs[i][1], v>> ELSE pairs[i]]
    ELSE Append(pairs, <<k, v>>)

\* -------------------------------------------- struct.pack and struct.unpack
\* Native formats on a little-endian build: '?' 1 byte, 'h' 2 bytes, 'i' 4
\* bytes (both two's complement), 'd' the 8 bytes of the double.
ShortMax == 32767
InShort(n) == -ShortMax - 1 <= n /\ n <= ShortMax

pack_h(n) ==
    LET u == IF n < 0 THEN n + 65536 ELSE n IN <<u % 256, u \div 256>>
unpack_h(b) ==
    LET u == b[1] + 256 * b[2] IN IF u > ShortMax THEN u - 65536 ELSE u

\* Every int of the model is within 32 bits, so pack('i') never raises for
\* one; 2^31 is added and taken away in two halves.
pack_i(n) ==
    LET u == IF n < 0 THEN (n + 1073741824) + 1073741824 ELSE n
        top == u \div 16777216
    IN <<u % 256, (u \div 256) % 256, (u \div 65536) % 256,
         IF n < 0 THEN top + 128 ELSE top>>
unpack_i(b) ==
    LET u == b[1] + (256 * b[2]) + (65536 * b[3]) + (16777216 * (b[4] % 128))
    IN IF b[4] >= 128 THEN (u - 1073741824) - 1073741824 ELSE u

pack_d(f) ==
    <<f.lo % 256, f.lo \div 256, f.mid % 256, f.mid \div 256,
      f.hi % 256, (f.hi \div 256) % 256,
      ((f.exp % 16) * 16) + (f.hi \div 65536),
      (IF f.neg THEN 128 ELSE 0) + (f.exp \div 16)>>
unpack_d(b) ==
    [neg |-> b[8] >= 128,
     exp |-> ((b[8] % 128) * 16) + (b[7] \div 16),
     hi |-> b[5] + (256 * b[6]) + (65536 * (b[7] % 16)),
     mid |-> b[3] + 256 * b[4],
     lo |-> b[1] + 256 * b[2]]

\* bytes(obj, "UTF-8"), for characters of the Basic Multilingual Plane.
utf8_char(c) ==
    IF c < 128 THEN <<c>>
    ELSE IF c < 2048 THEN <<192 + (c \div 64), 128 + (c % 64)>>
    ELSE <<224 + (c \div 4096), 128 + ((c \div 64) % 64), 128 + (c % 64)>>
RECURSIVE utf8_encode(_)
utf8_encode(chars) ==
    IF chars = <<>> THEN <<>> ELSE utf8_char(Head(chars)) \o utf8_encode(Tail(chars))

\* bytes.decode("UTF-8") from byte i on: the characters, or UnicodeDecodeError
\* for a byte that starts no character or a character cut short.
IsCont(b, i) == i <= Len(b) /\ b[i] >= 128 /\ b[i] < 192
RECURSIVE utf8_decode(_, _, _)
utf8_decode(b, i, acc) ==
    IF i > Len(b) THEN [chars |-> acc, err |-> "none"]
    ELSE IF b[i] < 128 THEN utf8_decode(b, i + 1, Append(acc, b[i]))
    ELSE IF b[i] >= 194 /\ b[i] < 224 /\ IsCont(b, i + 1)
         THEN utf8_decode(b, i + 2, Append(acc, (b[i] - 192) * 64 + (b[i + 1] - 128)))
    ELSE IF b[i] >= 224 /\ b[i] < 240 /\ IsCont(b, i + 1) /\ IsCont(b, i + 2)
         THEN utf8_decode(b, i + 3,
                  Append(acc, (b[i] - 224) * 4096 + (b[i + 1] - 128) * 64 + (b[i + 2] - 128)))
    ELSE [chars |-> acc, err |-> "UnicodeDecodeError"]

\* ------------------------------------------ pybran/serializers.py: encoding
\* What an encoding gives back: the registries afterwards (s, a record like
\* Sch: a lookup with autoregister=True adds to the type table), the bytes,
\* and the exception raised ("none": none).  What was autoregistered before
\* an exception stays registered.
Ok(s, bytes) == [s |-> s, bytes |-> bytes, err |-> "none"]
Fail(s, e) == [s |-> s, bytes |-> <<>>, err |-> e]

\* DEFAULT_SERIALIZER_REGISTRY, loaders.py lines 11-20
DEFAULT_SERIALIZER_REGISTRY ==
    << <<TypeV("bool"), "BoolSerializer">>, <<TypeV("int"), "IntSerializer">>,
       <<TypeV("float"), "FloatSerializer">>, <<TypeV("str"), "StringSerializer">>,
       <<TypeV("set"), "SetSerializer">>, <<TypeV("dict"), "MappingSerializer">>,
       <<TypeV("list"), "ArraySerializer">>, <<TypeV("tuple"), "ArraySerializer">> >>

\* bool(v), for struct.pack('?', v)
Truthy(v) ==
    IF v[1] = "bool" THEN v[2]
    ELSE IF v[1] = "int" THEN v[2] # 0
    ELSE IF v[1] = "float" THEN ~IsZero(v)
    ELSE IF v[1] \in {"str", "list", "tuple", "set", "dict"} THEN Len(v[2]) > 0
    ELSE v # None

\* len(v) raises TypeError: v is no str and no collection.
NoLen(v) == v[1] \notin {"str", "list", "tuple", "set", "dict"}

\* BoolSerializer.serialize, line 74
BoolSerialize(s, obj) == Ok(s, <<IF Truthy(obj) THEN 1 ELSE 0>>)

\* IntSerializer.serialize, line 85
IntSerialize(s, obj) ==
    IF IsNum(obj) THEN Ok(s, pack_i(Num(obj))) ELSE Fail(s, "struct.error")

\* FloatSerializer.serialize, line 96.  The bindings hand it a float or the
\* type `float` itself, never an int (which pack('d') would convert).
FloatSerialize(s, obj) ==
    IF obj[1] = "float" THEN Ok(s, pack_d(obj[2])) ELSE Fail(s, "struct.error")

\* StringSerializer.serialize, line 107
StringSerialize(s, obj) ==
    IF NoLen(obj) THEN Fail(s, "TypeError")
    ELSE IF ~InShort(Len(obj[2])) THEN Fail(s, "struct.error")
    ELSE IF obj[1] # "str" THEN Fail(s, "TypeError")
    ELSE Ok(s, pack_h(Len(obj[2])) \o utf8_encode(obj[2]))

\* struct.pack('h', id) of a type id looked up in the type table
PackId(s, v) ==
    IF IsNum(v) /\ InShort(Num(v)) THEN Ok(s, pack_h(Num(v))) ELSE Fail(s, "struct.error")

\* getattr(obj, name): the instance's attribute, else the class's, which is
\* still a Field object when no registration has scanned the class.
HasAttr(s, obj, name) ==
    /\ obj[1] = "obj"
    /\ \/ DictHas(obj[2][2], name)
       \/ \E k \in 1..Len(s.members[TypeV(obj[2][1])]) :
             s.members[TypeV(obj[2][1])][k].name = name
GetAttr(s, obj, name) ==
    IF DictHas(obj[2][2], name) THEN DictGet(obj[2][2], name)
    ELSE LET ms == s.members[TypeV(obj[2][1])]
             m == ms[CHOOSE k \in 1..Len(ms) : ms[k].name = name]
         IN IF m.marked THEN FieldV ELSE m.val

RECURSIVE Serialize(_, _, _, _), SetItems(_, _, _, _, _),
          MapItems(_, _, _, _, _), ArrayItems(_, _, _, _, _),
          FieldItems(_, _, _, _, _, _)

\* r then e: the bytes of r, `mid` and e joined, or the exception of e.
Then(r, mid, e) ==
    IF e.err # "none" THEN e ELSE Ok(e.s, r.bytes \o mid \o e.bytes)

\* SetSerializer.serialize lines 123-125, from the i-th element on
SetItems(r, b, items, i, tagging) ==
    IF r.err # "none" \/ i > Len(items) THEN r
    ELSE LET s1 == TypeAdd(r.s, PyType(items[i]))
             tid == PackId(s1, DictGet(s1.treg, PyType(items[i])))
         IN IF tid.err # "none" THEN tid
            ELSE SetItems(Then(r, tid.bytes, Serialize(s1, b, items[i], tagging)),
                          b, items, i + 1, tagging)

\* MappingSerializer.serialize lines 150-155, from the i-th entry on
MapItems(r, b, pairs, i, tagging) ==
    IF r.err # "none" \/ i > Len(pairs) THEN r
    ELSE LET s1 == TypeAdd(r.s, PyType(pairs[i][1]))
             kid == PackId(s1, DictGet(s1.treg, PyType(pairs[i][1])))
             k == IF kid.err # "none" THEN kid
                  ELSE Then(r, kid.bytes, Serialize(s1, b, pairs[i][1], tagging))
             s2 == TypeAdd(k.s, PyType(pairs[i][2]))
             vid == PackId(s2, DictGet(s2.treg, PyType(pairs[i][2])))
         IN IF k.err # "none" THEN k
            ELSE IF vid.err # "none" THEN vid
            ELSE MapItems(Then(k, vid.bytes, Serialize(s2, b, pairs[i][2], tagging)),
                          b, pairs, i + 1, tagging)

\* ArraySerializer.serialize lines 184-190, from the i-th element on: line
\* 186 looks the element's type up without autoregister, so the lookup
\* raises BranRegistrationException for a type not in the table.
ArrayItems(r, b, items, i, tagging) ==
    IF r.err # "none" \/ i > Len(items) THEN r
    ELSE IF ~RegContains(r.s.treg, PyType(items[i]))
         THEN Fail(r.s, "BranRegistrationException")
    ELSE LET tid == PackId(r.s, DictGet(r.s.treg, PyType(items[i])))
         IN IF tid.err # "none" THEN tid
            ELSE ArrayItems(Then(r, tid.bytes \o pack_h(i - 1),
                                 Serialize(r.s, b, items[i], tagging)),
                            b, items, i + 1, tagging)

\* DefaultSerializer.serialize lines 49-51, from the i-th field name on.
\* `fields` of line 43 is the class's field table and name_registry.get(cls)
\* of line 50 its alias table (ClassDefinition.fields and .aliases).
FieldItems(r, b, obj, names, i, tagging) ==
    IF r.err # "none" \/ i > Len(names) THEN r
    ELSE LET cls == PyType(obj)
             al == r.s.aliases[cls]
         IN IF ~RegContains(al, names[i]) THEN Fail(r.s, "BranRegistrationException")
            ELSE LET a == Then(r, <<>>, Serialize(r.s, b, DictGet(al, names[i]), tagging))
                 IN IF a.err # "none" THEN a
                    ELSE IF ~HasAttr(a.s, obj, names[i]) THEN Fail(a.s, "AttributeError")
                    ELSE FieldItems(
                             Then(a, <<>>, Serialize(a.s, b, GetAttr(a.s, obj, names[i]), tagging)),
                             b, obj, names, i + 1, tagging)

\* struct.pack('h', len(obj)), the first bytes of a collection
PackLen(s, obj) ==
    IF NoLen(obj) THEN Fail(s, "TypeError")
    ELSE IF ~InShort(Len(obj[2])) THEN Fail(s, "struct.error")
    ELSE Ok(s, pack_h(Len(obj[2])))

\* codec.serialize(loader, obj, **kwargs) of the codec class named `codec`
CodecSerialize(codec, s, b, obj, tagging) ==
    IF codec = "BoolSerializer" THEN BoolSerialize(s, obj)
    ELSE IF codec = "IntSerializer" THEN IntSerialize(s, obj)
    ELSE IF codec = "FloatSerializer" THEN FloatSerialize(s, obj)
    ELSE IF codec = "StringSerializer" THEN StringSerialize(s, obj)
    ELSE IF codec = "SetSerializer"
         THEN SetItems(PackLen(s, obj), b, obj[2], 1, tagging)
    ELSE IF codec = "MappingSerializer"
         THEN MapItems(PackLen(s, obj), b, obj[2], 1, tagging)
    ELSE IF codec = "ArraySerializer"
         THEN ArrayItems(PackLen(s, obj), b, obj[2], 1, tagging)
    ELSE IF ~RegContains(s.creg, PyType(obj))
         THEN Fail(s, "BranRegistrationException")
    ELSE FieldItems(Ok(s, <<>>), b, obj, DictKeys(s.fields[PyType(obj)]), 1, tagging)

\* Loader.register, loaders.py line 118
register(b, cls, serializer) == DictSet(b, cls, serializer)

\* A get_serializer that hands out the field-wise codec for an unbound class
get_serializer_default(b, cls) ==
    [err |-> "none",
     codec |-> IF DictHas(b, cls) THEN DictGet(b, cls) ELSE "DefaultSerializer"]

\* Loader.get_serializer, loaders.py lines 131-138, with the bindings b: the
\* codec bound to exactly cls. The pool of codec instances holds no state
\* of its own and is left out.
get_serializer(b, cls) ==
    IF ~DictHas(b, cls) THEN [err |-> "BranSerializerException", codec |-> None]
    ELSE [err |-> "none", codec |-> DictGet(b, cls)]

\* Loader.serialize, loaders.py lines 73-79, with the bindings b.  Line 77
\* gets the int codec, then looks the type up with autoregister=True, and
\* only line 79 asks for the codec of the type.
Serialize(s, b, obj, tagging) ==
    LET cls == ValType(obj)
        s1 == IF tagging /\ DictHas(b, TypeV("int")) THEN TypeAdd(s, cls) ELSE s
        tag == IF ~tagging THEN Ok(s, <<>>)
               ELSE IF get_serializer(b, TypeV("int")).err # "none"
               THEN Fail(s, get_serializer(b, TypeV("int")).err)
               ELSE CodecSerialize(get_serializer(b, TypeV("int")).codec, s1, b,
                                   DictGet(s1.treg, cls), tagging)
    IN IF tag.err # "none" THEN tag
       ELSE IF get_serializer(b, cls).err # "none"
       THEN Fail(tag.s, get_serializer(b, cls).err)
       ELSE Then(tag, <<>>, CodecSerialize(get_serializer(b, cls).codec, tag.s, b,
                                           obj, tagging))

\* ------------------------------------------ pybran/serializers.py: decoding
\* What a decoding gives back: the value, the position of the stream after
\* it, and the exception raised ("none": none).
DOk(val, pos) == [val |-> val, pos |-> pos, err |-> "none"]
DFail(e) == [val |-> None, pos |-> 0, err |-> e]

\* data.read(n) at position pos: the next n bytes, fewer at the end of the
\* stream, and all the rest for a negative n.
Read(data, pos, n) ==
    IF n < 0 \/ pos + n > Len(data) THEN SubSeq(data, pos + 1, Len(data))
    ELSE SubSeq(data, pos + 1, pos + n)

\* struct.unpack('h', data.read(2))[0]
ReadShort(data, pos) ==
    LET c == Read(data, pos, 2)
    IN IF Len(c) # 2 THEN DFail("struct.error") ELSE DOk(IntV(unpack_h(c)), pos + 2)

\* BoolSerializer.deserialize, line 77
BoolDeserialize(data, pos) ==
    LET c == Read(data, pos, 1)
    IN IF Len(c) # 1 THEN DFail("struct.error") ELSE DOk(BoolV(c[1] # 0), pos + 1)

\* IntSerializer.deserialize, line 88
IntDeserialize(data, pos) ==
    LET c == Read(data, pos, 4)
    IN IF Len(c) # 4 THEN DFail("struct.error") ELSE DOk(IntV(unpack_i(c)), pos + 4)

\* FloatSerializer.deserialize, line 99
FloatDeserialize(data, pos) ==
    LET c == Read(data, pos, 8)
    IN IF Len(c) # 8 THEN DFail("struct.error") ELSE DOk(<<"float", unpack_d(c)>>, pos + 8)

\* StringSerializer.deserialize, lines 110-112: `length` bytes are read,
\* where the encoder wrote the number of characters.
StringDeserialize(data, pos) ==
    LET n == ReadShort(data, pos)
        c == Read(data, n.pos, n.val[2])
        d == utf8_decode(c, 1, <<>>)
    IN IF n.err # "none" THEN n
       ELSE IF d.err # "none" THEN DFail(d.err)
       ELSE DOk(StrV(d.chars), n.pos + Len(c))

\* ArraySerializer.deserialize without `tuple(obj) if cls is tuple`.
ArrayResultList(cls, items) == ListV(items)

\* ArraySerializer.deserialize, line 206
ArrayResult(cls, items) ==
    IF cls = TypeV("tuple") THEN TupleV(items) ELSE ListV(items)

\* setattr(obj, name, val)
SetAttr(obj, name, val) == <<"obj", <<obj[2][1], DictSet(obj[2][2], name, val)>>>>

RECURSIVE Deserialize(_, _, _, _, _, _), SetDeItems(_, _, _, _, _, _, _),
          MapDeItems(_, _, _, _, _, _, _), ArrayDeItems(_, _, _, _, _, _, _),
          FieldDeItems(_, _, _, _, _, _, _)

\* SetSerializer.deserialize lines 134-136, with n elements to go
SetDeItems(s, b, data, pos, n, acc, tagging) ==
    IF n <= 0 THEN DOk(SetV(acc), pos)
    ELSE LET t == ReadShort(data, pos)
         IN IF t.err # "none" THEN t
            ELSE IF ~RegContains(s.treg, t.val) THEN DFail("BranRegistrationException")
            ELSE LET e == Deserialize(s, b, data, t.pos, DictGet(s.treg, t.val), tagging)
                 IN IF e.err # "none" THEN e
                    ELSE IF Unhashable(e.val) THEN DFail("TypeError")
                    ELSE SetDeItems(s, b, data, e.pos, n - 1, SetAdd(acc, e.val), tagging)

\* MappingSerializer.deserialize lines 163-170, with n entries to go
MapDeItems(s, b, data, pos, n, acc, tagging) ==
    IF n <= 0 THEN DOk(DictV(acc), pos)
    ELSE LET kt == ReadShort(data, pos)
         IN IF kt.err # "none" THEN kt
            ELSE IF ~RegContains(s.treg, kt.val) THEN DFail("BranRegistrationException")
            ELSE LET k == Deserialize(s, b, data, kt.pos, DictGet(s.treg, kt.val), tagging)
                     vt == ReadShort(data, k.pos)
                 IN IF k.err # "none" THEN k
                    ELSE IF vt.err # "none" THEN vt
                    ELSE IF ~RegContains(s.treg, vt.val)
                         THEN DFail("BranRegistrationException")
                    ELSE LET v == Deserialize(s, b, data, vt.pos,
                                              DictGet(s.treg, vt.val), tagging)
                         IN IF v.err # "none" THEN v
                            ELSE IF Unhashable(k.val) THEN DFail("TypeError")
                            ELSE MapDeItems(s, b, data, v.pos, n - 1,
                                            DictPut(acc, k.val, v.val), tagging)

\* ArraySerializer.deserialize lines 200-204, with n elements to go: acc is
\* the list `obj`, which starts as range(length), and obj[item_index] takes
\* an index from -len(obj) to len(obj) - 1.
ArrayDeItems(s, b, data, pos, n, acc, tagging) ==
    IF n <= 0 THEN DOk(ListV(acc), pos)
    ELSE LET t == ReadShort(data, pos)
             ix == ReadShort(data, t.pos)
         IN IF t.err # "none" THEN t
            ELSE IF ix.err # "none" THEN ix
            ELSE IF ~RegContains(s.treg, t.val) THEN DFail("BranRegistrationException")
            ELSE LET e == Deserialize(s, b, data, ix.pos, DictGet(s.treg, t.val), tagging)
                     j == ix.val[2]
                     k == IF j < 0 THEN j + Len(acc) + 1 ELSE j + 1
                 IN IF e.err # "none" THEN e
                    ELSE IF k < 1 \/ k > Len(acc) THEN DFail("IndexError")
                    ELSE ArrayDeItems(s, b, data, e.pos, n - 1,
                                      [acc EXCEPT ![k] = e.val], tagging)

\* DefaultSerializer.deserialize lines 60-64: the loop goes on while four
\* bytes or more are left of the whole stream.  name_registry.get(cls) is
\* the alias table of the class and class_registry.get(cls) its field table.
FieldDeItems(s, b, data, pos, cls, obj, tagging) ==
    IF Len(data) - pos < 4 THEN DOk(obj, pos)
    ELSE IF ~RegContains(s.creg, cls) THEN DFail("BranRegistrationException")
    ELSE LET a == Deserialize(s, b, data, pos, TypeV("int"), tagging)
         IN IF a.err # "none" THEN a
            ELSE IF ~RegContains(s.aliases[cls], a.val)
                 THEN DFail("BranRegistrationException")
            ELSE LET name == DictGet(s.aliases[cls], a.val)
                 IN IF ~RegContains(s.fields[cls], name)
                    THEN DFail("BranRegistrationException")
                    ELSE LET v == Deserialize(s, b, data, a.pos,
                                              DictGet(s.fields[cls], name), tagging)
                         IN IF v.err # "none" THEN v
                            ELSE IF name[1] # "str" THEN DFail("TypeError")
                            ELSE FieldDeItems(s, b, data, v.pos, cls,
                                              SetAttr(obj, name, v.val), tagging)

\* codec.deserialize(loader, cls, data, **kwargs) of the codec class `codec`
CodecDeserialize(codec, s, b, data, pos, cls, tagging) ==
    IF codec = "BoolSerializer" THEN BoolDeserialize(data, pos)
    ELSE IF codec = "IntSerializer" THEN IntDeserialize(data, pos)
    ELSE IF codec = "FloatSerializer" THEN FloatDeserialize(data, pos)
    ELSE IF codec = "StringSerializer" THEN StringDeserialize(data, pos)
    ELSE IF codec \in {"SetSerializer", "MappingSerializer", "ArraySerializer"}
         THEN LET n == ReadShort(data, pos)
              IN IF n.err # "none" THEN n
                 ELSE IF codec = "SetSerializer"
                      THEN SetDeItems(s, b, data, n.pos, n.val[2], <<>>, tagging)
                 ELSE IF codec = "MappingSerializer"
                      THEN MapDeItems(s, b, data, n.pos, n.val[2], <<>>, tagging)
                 ELSE LET r == ArrayDeItems(s, b, data, n.pos, n.val[2],
                                            [i \in 1..n.val[2] |-> IntV(i - 1)], tagging)
                      IN IF r.err # "none" THEN r
                         ELSE DOk(ArrayResult(cls, r.val[2]), r.pos)
    ELSE FieldDeItems(s, b, data, pos, cls, ObjV(cls, <<>>), tagging)

\* Loader.deserialize that falls back on the caller's cls for an unknown tag
Deserialize_trusts_cls(s, b, data, pos, cls, tagging) ==
    LET tg == IF ~tagging THEN DOk(None, pos)
               ELSE IF get_serializer(b, TypeV("int")).err # "none"
               THEN DFail(get_serializer(b, TypeV("int")).err)
               ELSE CodecDeserialize(get_serializer(b, TypeV("int")).codec, s, b, data, pos,
                                     TypeV("int"), tagging)
        to == IF tagging /\ RegContains(s.treg, tg.val) THEN DictGet(s.treg, tg.val)
              ELSE cls
    IN IF tg.err # "none" THEN tg
       ELSE IF get_serializer(b, to).err # "none" THEN DFail(get_serializer(b, to).err)
       ELSE CodecDeserialize(get_serializer(b, to).codec, s, b, data, tg.pos, to, tagging)

\* Loader.deserialize, loaders.py lines 52-60, with the bindings b
Deserialize(s, b, data, pos, cls, tagging) ==
    LET tg == IF ~tagging THEN DOk(None, pos)
               ELSE IF get_serializer(b, TypeV("int")).err # "none"
               THEN DFail(get_serializer(b, TypeV("int")).err)
               ELSE CodecDeserialize(get_serializer(b, TypeV("int")).codec, s, b, data, pos,
                                     TypeV("int"), tagging)
        to == IF tagging THEN DictGet(s.treg, tg.val) ELSE cls
    IN IF tg.err # "none" THEN tg
       ELSE IF tagging /\ ~RegContains(s.treg, tg.val)
            THEN DFail("BranSerializerException")
       ELSE IF get_serializer(b, to).err # "none" THEN DFail(get_serializer(b, to).err)
       ELSE CodecDeserialize(get_serializer(b, to).codec, s, b, data, tg.pos, to, tagging)

\* ---------------------------------- pybran/loaders.py: one Loader's calls
\* The values handed to Loader.serialize, in a sequence.
FloatNaN == FloatV(FALSE, 2047, 524288, 0, 0)           \* float("nan")
TextHi == StrV(<<104, 105>>)                            \* "hi"
TextAccent == StrV(<<233>>)                             \* "é", two bytes in UTF-8
\* A text one character longer than struct's 'h' can count.
LongText == StrV([i \in 1..(ShortMax + 1) |-> 97])
Values ==
    <<BoolV(TRUE), IntV(-7), Float21, FloatNaN, TextHi, TextAccent, LongText,
      SetV(<<IntV(1), StrV(<<120>>)>>),
      ListV(<<IntV(1), BoolV(TRUE), StrV(<<97>>)>>),
      TupleV(<<IntV(1), Float21>>),
      DictV(<< <<StrV(<<107>>), Float21>>, <<IntV(2), StrV(<<118>>)>> >>),
      ListV(<<ListV(<<IntV(1)>>), DictV(<< <<StrV(<<97>>), Float21>> >>)>>),
      ObjV(ClassA, <<>>), ObjV(ClassB, <<>>)>>

\* The types of all elements of v, at every depth, are keys of the type
\* table r.
RECURSIVE Known(_, _)
Known(r, v) ==
    IF v[1] \in {"list", "tuple", "set"}
    THEN \A i \in 1..Len(v[2]) : RegContains(r, PyType(v[2][i])) /\ Known(r, v[2][i])
    ELSE IF v[1] = "dict"
    THEN \A i \in 1..Len(v[2]) : \A j \in 1..2 :
            RegContains(r, PyType(v[2][i][j])) /\ Known(r, v[2][i][j])
    ELSE TRUE

NoCallYet ==
    [phase |-> "none", obj |-> None, tagging |-> FALSE, known |-> FALSE,
     bytes |-> <<>>, err |-> "none", back |-> None, berr |-> "none"]

\* No stream was handed to deserialize since the last serialize call.
NotDecoded ==
    [made |-> FALSE, cls |-> None, tagging |-> FALSE, lead |-> None, had |-> FALSE,
     err |-> "none", val |-> None]

\* The target types a caller hands to Loader.deserialize (cls=None is the
\* default, loaders.py line 41).
SuppliedTypes == {None, TypeV("int"), ClassA}

CodecIdle ==
    /\ serializer_registry = DEFAULT_SERIALIZER_REGISTRY
    /\ call = NoCallYet
    /\ calls = 0
    /\ decoded = NotDecoded

\* The module that declares classes A and B is imported: @schema registers
\* A and then B (schema, decorators.py line 342).
ImportSchemas ==
    /\ calls = 0
    /\ class_registry = <<>>
    /\ SchBecomes(register_class(register_class(Sch, ClassA, <<>>, <<>>).s,
                                 ClassB, <<>>, <<>>).s)
    /\ UNCHANGED <<refreshed, schLast, idVars, concVars, regLast, codecVars, allocVars, poolVars, fileVars, rcVars>>

\* loader.register(cls, DefaultSerializer), loaders.py line 118, for a class
\* of the imported module.
LoaderRegister(cls) ==
    /\ calls = 0
    /\ RegContains(class_registry, cls)
    /\ serializer_registry' = DictSet(serializer_registry, cls, "DefaultSerializer")
    /\ UNCHANGED <<call, calls, decoded, idVars, regVars, concVars, schVars, allocVars, poolVars, fileVars, rcVars>>

\* loader.serialize(obj, tagging=tagging)
SerializeCall(obj, tagging) ==
    /\ calls < MaxCalls
    /\ LET r == Serialize(Sch, serializer_registry, obj, tagging)
       IN /\ type_registry' = r.s.treg
          /\ typeId' = r.s.tid
          /\ call' = [phase |-> "serialized", obj |-> obj, tagging |-> tagging,
                      known |-> Known(type_registry, obj),
                      bytes |-> r.bytes, err |-> r.err,
                      back |-> None, berr |-> "none"]
    /\ calls' = calls + 1
    /\ decoded' = NotDecoded
    /\ UNCHANGED <<serializer_registry, regLast, idVars, concVars, schVars, allocVars, poolVars, fileVars, rcVars>>

\* loader.deserialize(io.BytesIO(serialized), cls, tagging=tagging) of the
\* bytes the last serialize call returned. A call that mirrors the serialize
\* call (the same tagging; cls = type(obj), or none with tagging) is the
\* second half of a round trip and `call` records its outcome. The others
\* made are those with tagging=True on a stream written without tags
\* (test_loader.py line 85 decodes an untagged int so); each counts as a
\* call of its own. `lead` is the int the stream starts with, None if
\* it is shorter than one; `had` tells whether the type table held that int
\* before the call.
DeserializeReturns(mirrors, cls, tagging, lead, r) ==
    /\ calls' = IF mirrors THEN calls ELSE calls + 1
    /\ call' = IF mirrors
               THEN [call EXCEPT !.phase = "deserialized", !.back = r.val, !.berr = r.err]
               ELSE call
    /\ decoded' = [made |-> TRUE, cls |-> cls, tagging |-> tagging,
                   lead |-> IF lead.err = "none" THEN lead.val ELSE None,
                   had |-> lead.err = "none" /\ RegContains(type_registry, lead.val),
                   err |-> r.err, val |-> r.val]

DeserializeCall(cls, tagging) ==
    /\ call.phase = "serialized"
    /\ call.err = "none"
    /\ LET mirrors == /\ tagging = call.tagging
                      /\ cls = (IF call.tagging THEN None ELSE ValType(call.obj))
       IN /\ mirrors \/ (tagging /\ ~call.tagging /\ calls < MaxCalls)
          /\ DeserializeReturns(mirrors, cls, tagging, IntDeserialize(call.bytes, 0),
                                Deserialize(Sch, serializer_registry, call.bytes, 0,
                                            cls, tagging))
    /\ UNCHANGED <<serializer_registry, idVars, regVars, concVars, schVars, allocVars, poolVars, fileVars, rcVars>>

\* loader.register(cls, DefaultSerializer) for a class that no
\* register_class call was made for: its module declares it without @schema.
LoaderRegisterOnly(cls) ==
    /\ ~RegContains(class_registry, cls)
    /\ serializer_registry' = register(serializer_registry, cls, "DefaultSerializer")
    /\ UNCHANGED <<call, calls, decoded, idVars, regVars, concVars, schVars, allocVars, poolVars, fileVars, rcVars>>

\* What is serialized while no class is registered
UnregisteredValues ==
    <<ObjV(ClassA, <<>>), ObjV(ClassB, <<>>), IntV(-7), TextHi,
      ListV(<<IntV(1), BoolV(TRUE), StrV(<<97>>)>>)>>

UnregisteredNext ==
    \/ \E cls \in Classes : LoaderRegisterOnly(cls)
    \/ \E i \in 1..Len(UnregisteredValues), tagging \in BOOLEAN :
          SerializeCall(UnregisteredValues[i], tagging)

\* The module that declares Nested, NestedLast and NestedFirst is imported:
\* @schema registers them in the order of their declaration.
ImportNested ==
    /\ calls = 0
    /\ class_registry = <<>>
    /\ SchBecomes(register_class(
                     register_class(
                       register_class(Sch, ClassNested, <<>>, <<>>).s,
                       ClassNestedLast, <<>>, <<>>).s,
                     ClassNestedFirst, <<>>, <<>>).s)
    /\ UNCHANGED <<refreshed, schLast, idVars, concVars, regLast, codecVars, allocVars, poolVars, fileVars, rcVars>>

\* The instances that are serialized: as declared, and with the attributes
\* assigned on the instance.
NestedValues ==
    <<ObjV(ClassNested, <<>>), ObjV(ClassNestedLast, <<>>),
      ObjV(ClassNestedFirst, <<>>),
      ObjV(ClassNestedFirst,
           << <<NameTest2, ObjV(ClassNested, << <<NameX, IntV(3)>> >>)>>,
              <<NameTest1, IntV(-7)>> >>)>>

NestedNext ==
    \/ ImportNested
    \/ \E cls \in NestedClasses : LoaderRegister(cls)
    \/ \E i \in 1..Len(NestedValues), tagging \in BOOLEAN :
          SerializeCall(NestedValues[i], tagging)
    \/ \E cls \in {None, ValType(call.obj)}, tagging \in BOOLEAN :
          DeserializeCall(cls, tagging)

CodecNext ==
    \/ ImportSchemas
    \/ \E cls \in Classes : LoaderRegister(cls)
    \/ \E i \in 1..Len(Values), tagging \in BOOLEAN : SerializeCall(Values[i], tagging)
    \/ \E cls \in SuppliedTypes \cup {ValType(call.obj)}, tagging \in BOOLEAN :
          DeserializeCall(cls, tagging)

\* ------------------------------------- one Registry under threads (SpecConc)
\* Every method of Registry is replaced by synced_func around it, all with
\* the one lock `synchronized` made for the class (synchronized.py lines
\* 12-14, 48-54), so a method that calls another method goes through the
\* wrapper again.  A thread's calls are a stack of frames: the method, where
\* it is (`at`), its arguments, whether its wrapper took the lock (`held`),
\* and the result of the call it made last (`res`).
RegThreads == 1..NRegThreads

Frame(m, key, value, auto) ==
    [m |-> m, at |-> "check", key |-> key, value |-> value, auto |-> auto,
     held |-> FALSE, res |-> None]

\* The lock that guards a method.  Every method of Registry is wrapped with
\* the one lock made for the class (synchronized.py lines 22-24, 48-52).
\* TypeId.get_id is the wrapper made for class TypeId around the wrapper
\* made for class Id; a wrapper tests and takes the lock that is the
\* `__lock__` attribute of the function it wraps (lines 33, 36), and line 30
\* sets that attribute again each time the function is wrapped: the
\* attribute of Id's wrapper was set last when class NameId was decorated
\* (decorators.py line 57), so the outer wrapper uses NameId's lock, and the
\* inner one, around the plain function, the lock of class Id.
LockOf(m) ==
    IF m = "TypeId.get_id" THEN "NameId"
    ELSE IF m = "Id.get_id" THEN "Id"
    ELSE "Registry"

AllocatorLocks == {"NameId", "Id"}

\* lock.locked()
Locked(l) == IF l = "Registry" THEN cLock ELSE aLocks[l]

NoCall == [m |-> "none", key |-> None, value |-> None, auto |-> FALSE]

\* The pair the writers insert, and the calls a thread may make.
PairKey == TypeV("int")
PairValue == IntV(1)
CallMenu ==
    {[m |-> "add", key |-> PairKey, value |-> PairValue, auto |-> FALSE],
     [m |-> "get", key |-> PairKey, value |-> None, auto |-> TRUE],
     [m |-> "get", key |-> PairKey, value |-> None, auto |-> FALSE],
     [m |-> "get", key |-> PairValue, value |-> None, auto |-> FALSE],
     [m |-> "contains", key |-> PairKey, value |-> None, auto |-> FALSE],
     [m |-> "contains", key |-> PairValue, value |-> None, auto |-> FALSE],
     [m |-> "TypeId.get_id", key |-> None, value |-> None, auto |-> FALSE]}

ConcIdle ==
    /\ creg = <<>>
    /\ cLock = FALSE
    /\ aLocks = [l \in AllocatorLocks |-> FALSE]
    /\ cGen = 0
    /\ cStack = [t \in RegThreads |-> <<>>]
    /\ cOp = [t \in RegThreads |-> NoCall]
    /\ cRet = [t \in RegThreads |-> [done |-> FALSE, ret |-> None, raised |-> FALSE]]

Top(t) == cStack[t][Len(cStack[t])]
At(t, m, at) == cStack[t] # <<>> /\ Top(t).m = m /\ Top(t).at = at
SetTop(t, f) == [cStack EXCEPT ![t] = [@ EXCEPT ![Len(@)] = f]]
\* The top frame goes on at `at` once the call it makes now has returned.
PushCall(t, at, f) ==
    [cStack EXCEPT ![t] = Append([@ EXCEPT ![Len(@)].at = at], f)]

\* A thread calls a method of the registry.
CCall(t, o) ==
    /\ cOp[t] = NoCall
    /\ cOp' = [cOp EXCEPT ![t] = o]
    /\ cStack' = [cStack EXCEPT ![t] = <<Frame(o.m, o.key, o.value, o.auto)>>]
    /\ UNCHANGED <<creg, cLock, cGen, cRet>>
    /\ UNCHANGED aLocks
    /\ ConcFrame

\* synced_func lines 33-34: run without the lock when it is locked.
CCheck(t) ==
    /\ cStack[t] # <<>> /\ Top(t).at = "check"
    /\ cStack' = SetTop(t, [Top(t) EXCEPT
                              !.at = IF synced_func_bypass(Locked(LockOf(Top(t).m)))
                                    THEN "b0" ELSE "acquire"])
    /\ UNCHANGED <<creg, cLock, cGen, cOp, cRet>>
    /\ UNCHANGED aLocks
    /\ ConcFrame

\* synced_func line 36: `with lock` waits for the lock and takes it.
CAcquire(t) ==
    LET l == LockOf(Top(t).m) IN
    /\ cStack[t] # <<>> /\ Top(t).at = "acquire"
    /\ ~Locked(l)
    /\ cLock' = IF l = "Registry" THEN TRUE ELSE cLock
    /\ aLocks' = IF l = "Registry" THEN aLocks ELSE [aLocks EXCEPT ![l] = TRUE]
    /\ cStack' = SetTop(t, [Top(t) EXCEPT !.at = "b0", !.held = TRUE])
    /\ UNCHANGED <<creg, cGen, cOp, cRet>>
    /\ ConcFrame

\* Registry.contains line 167
CContains(t) ==
    /\ At(t, "contains", "b0")
    /\ cStack' = SetTop(t, [Top(t) EXCEPT !.at = "leave",
                                          !.res = BoolV(RegContains(creg, Top(t).key))])
    /\ UNCHANGED <<creg, cLock, cGen, cOp, cRet>>
    /\ UNCHANGED aLocks
    /\ ConcFrame

\* Registry.set line 141
CSet(t) ==
    /\ At(t, "set", "b0")
    /\ creg' = RegSet(creg, Top(t).key, Top(t).value)
    /\ cStack' = SetTop(t, [Top(t) EXCEPT !.at = "leave", !.res = None])
    /\ UNCHANGED <<cLock, cGen, cOp, cRet>>
    /\ UNCHANGED aLocks
    /\ ConcFrame

\* Registry.get line 109: self.contains(key)
CGet0(t) ==
    /\ At(t, "get", "b0")
    /\ cStack' = PushCall(t, "b1", Frame("contains", Top(t).key, None, FALSE))
    /\ UNCHANGED <<creg, cLock, cGen, cOp, cRet>>
    /\ UNCHANGED aLocks
    /\ ConcFrame

\* Registry.get lines 109-113: add the key, or raise, when it is absent.
CGet1(t) ==
    /\ At(t, "get", "b1")
    /\ cStack' = IF Top(t).res = BoolV(TRUE)
                 THEN SetTop(t, [Top(t) EXCEPT !.at = "b2"])
                 ELSE IF Top(t).auto
                      THEN PushCall(t, "b2", Frame("add", Top(t).key, None, FALSE))
                      ELSE SetTop(t, [Top(t) EXCEPT !.at = "raise", !.res = None])
    /\ UNCHANGED <<creg, cLock, cGen, cOp, cRet>>
    /\ UNCHANGED aLocks
    /\ ConcFrame

\* Registry.get line 115: return self.registry.get(key)
CGet2(t) ==
    /\ At(t, "get", "b2")
    /\ cStack' = SetTop(t, [Top(t) EXCEPT !.at = "leave", !.res = DictGet(creg, Top(t).key)])
    /\ UNCHANGED <<creg, cLock, cGen, cOp, cRet>>
    /\ UNCHANGED aLocks
    /\ ConcFrame

\* Registry.add line 127: self.contains(key)
CAdd0(t) ==
    /\ At(t, "add", "b0")
    /\ cStack' = PushCall(t, "b1", Frame("contains", Top(t).key, None, FALSE))
    /\ UNCHANGED <<creg, cLock, cGen, cOp, cRet>>
    /\ UNCHANGED aLocks
    /\ ConcFrame

\* Registry.add lines 127-129: nothing to do for a present key; else the
\* generator is called when no value was given.  The generator of the type
\* registry is `lambda k: TypeId().get_id()` (line 216).
CAdd1(t) ==
    LET f == Top(t)
        generates == f.res = BoolV(FALSE) /\ f.value = None
    IN
    /\ At(t, "add", "b1")
    /\ cStack' = IF f.res = BoolV(TRUE)
                 THEN SetTop(t, [f EXCEPT !.at = "leave", !.res = None])
                 ELSE IF generates
                      THEN PushCall(t, "b1g", Frame("TypeId.get_id", f.key, None, FALSE))
                      ELSE SetTop(t, [f EXCEPT !.at = "b2"])
    /\ UNCHANGED <<creg, cLock, cGen, cOp, cRet>>
    /\ UNCHANGED aLocks
    /\ ConcFrame

\* Registry.add line 129: `value = ` what the generator returned.
CAdd1g(t) ==
    /\ At(t, "add", "b1g")
    /\ cStack' = SetTop(t, [Top(t) EXCEPT !.at = "b2", !.value = Top(t).res])
    /\ UNCHANGED <<creg, cLock, cGen, cOp, cRet>>
    /\ UNCHANGED aLocks
    /\ ConcFrame

\* The wrapper of class TypeId calls the function it wraps, the wrapper of
\* class Id (synchronized.py lines 34, 38) ...
CGenOuter(t) ==
    /\ At(t, "TypeId.get_id", "b0")
    /\ cStack' = PushCall(t, "b1", Frame("Id.get_id", Top(t).key, None, FALSE))
    /\ UNCHANGED <<creg, cLock, cGen, cOp, cRet>>
    /\ UNCHANGED aLocks
    /\ ConcFrame

\* ... and returns what it returned.
CGenOuter1(t) ==
    /\ At(t, "TypeId.get_id", "b1")
    /\ cStack' = SetTop(t, [Top(t) EXCEPT !.at = "leave"])
    /\ UNCHANGED <<creg, cLock, cGen, cOp, cRet>>
    /\ UNCHANGED aLocks
    /\ ConcFrame

\* Id.get_id lines 34-36
CGenId(t) ==
    /\ At(t, "Id.get_id", "b0")
    /\ cGen < MaxId
    /\ cGen' = get_id(cGen)
    /\ cStack' = SetTop(t, [Top(t) EXCEPT !.at = "leave", !.res = IntV(get_id(cGen))])
    /\ UNCHANGED <<creg, cLock, cOp, cRet>>
    /\ UNCHANGED aLocks
    /\ ConcFrame

\* Registry.add line 131: self.set(key, value)
CAdd2(t) ==
    /\ At(t, "add", "b2")
    /\ cStack' = PushCall(t, "b3", Frame("set", Top(t).key, Top(t).value, FALSE))
    /\ UNCHANGED <<creg, cLock, cGen, cOp, cRet>>
    /\ UNCHANGED aLocks
    /\ ConcFrame

\* Registry.add line 132: self.get(key) ...
CAdd3(t) ==
    /\ At(t, "add", "b3")
    /\ cStack' = PushCall(t, "b4", Frame("get", Top(t).key, None, FALSE))
    /\ UNCHANGED <<creg, cLock, cGen, cOp, cRet>>
    /\ UNCHANGED aLocks
    /\ ConcFrame

\* ... and self.set(<what get returned>, key)
CAdd4(t) ==
    /\ At(t, "add", "b4")
    /\ cStack' = PushCall(t, "b5", Frame("set", Top(t).res, Top(t).key, FALSE))
    /\ UNCHANGED <<creg, cLock, cGen, cOp, cRet>>
    /\ UNCHANGED aLocks
    /\ ConcFrame

CAdd5(t) ==
    /\ At(t, "add", "b5")
    /\ cStack' = SetTop(t, [Top(t) EXCEPT !.at = "leave", !.res = None])
    /\ UNCHANGED <<creg, cLock, cGen, cOp, cRet>>
    /\ UNCHANGED aLocks
    /\ ConcFrame

\* A call returns or raises: its wrapper releases the lock if it took it
\* (leaving `with`), and the caller gets the result, or the exception.
CLeave(t) ==
    LET f == Top(t)
        n == Len(cStack[t])
        rest == SubSeq(cStack[t], 1, n - 1)
    IN
    /\ cStack[t] # <<>> /\ f.at \in {"leave", "raise"}
    /\ cLock' = IF f.held /\ LockOf(f.m) = "Registry" THEN FALSE ELSE cLock
    /\ aLocks' = IF f.held /\ LockOf(f.m) # "Registry"
                 THEN [aLocks EXCEPT ![LockOf(f.m)] = FALSE] ELSE aLocks
    /\ cStack' = [cStack EXCEPT ![t] =
                    IF n = 1 THEN <<>>
                    ELSE [rest EXCEPT ![n - 1] =
                            [@ EXCEPT !.res = f.res,
                                      !.at = IF f.at = "raise" THEN "raise" ELSE @]]]
    /\ cRet' = IF n = 1
               THEN [cRet EXCEPT ![t] = [done |-> TRUE, ret |-> f.res,
                                         raised |-> f.at = "raise"]]
               ELSE cRet
    /\ UNCHANGED <<creg, cGen, cOp>>
    /\ ConcFrame

ConcNext ==
    \E t \in RegThreads :
        \/ \E o \in CallMenu : CCall(t, o)
        \/ CCheck(t)
        \/ CAcquire(t)
        \/ CContains(t)
        \/ CSet(t)
        \/ CGet0(t)
        \/ CGet1(t)
        \/ CGet2(t)
        \/ CAdd0(t)
        \/ CAdd1(t)
        \/ CAdd1g(t)
        \/ CGenOuter(t)
        \/ CGenOuter1(t)
        \/ CGenId(t)
        \/ CAdd2(t)
        \/ CAdd3(t)
        \/ CAdd4(t)
        \/ CAdd5(t)
        \/ CLeave(t)

\* ------------------------------------ the allocators, called sequentially
\* The allocator classes of decorators.py: Id (line 11), TypeId (line 46)
\* and NameId (line 58).  Each declares its own _instance attribute.
AllocKinds == {"Id", "TypeId", "NameId"}

\* The _id of allocator k's instance
CounterOf(k) ==
    IF k = "Id" THEN id ELSE IF k = "TypeId" THEN typeId ELSE nameId

\* An Id.__new__ that sets _id to 0 every time the allocator is obtained
Id_new_zeroes(made, counter) == 0

\* Id.__new__, decorators.py lines 21-25: the _id of the instance it gives
\* back.  The instance is made, with _id = 0, only when the class has none.
Id_new(made, counter) == IF ~made THEN 0 ELSE counter

NoAllocCall == [kind |-> "none", op |-> "none", ret |-> 0]

AllocIdle ==
    /\ instance = [k \in AllocKinds |-> FALSE]
    /\ issued = [k \in AllocKinds |-> 0]
    /\ allocLast = NoAllocCall

\* The counters after a call on allocator k left its _id at n
AllocBecomes(k, n) ==
    /\ id' = IF k = "Id" THEN n ELSE id
    /\ typeId' = IF k = "TypeId" THEN n ELSE typeId
    /\ nameId' = IF k = "NameId" THEN n ELSE nameId
    /\ instance' = [instance EXCEPT ![k] = TRUE]
    /\ UNCHANGED <<idLock, idPc, idOp, idHeld, idTmp, idRet, type_registry, regLast,
                   class_registry, fieldsOf, aliasesOf, members, refreshed, schLast,
                   concVars, codecVars, poolVars, fileVars, rcVars>>

\* K(): the allocator is obtained and nothing is called on it.
AllocObtain(k) ==
    /\ AllocBecomes(k, Id_new(instance[k], CounterOf(k)))
    /\ allocLast' = [kind |-> k, op |-> "new", ret |-> 0]
    /\ UNCHANGED issued

\* K().get_id(), decorators.py lines 34-36
AllocGetId(k) ==
    LET n == get_id(Id_new(instance[k], CounterOf(k))) IN
    /\ n <= MaxId
    /\ AllocBecomes(k, n)
    /\ allocLast' = [kind |-> k, op |-> "get_id", ret |-> n]
    /\ issued' = [issued EXCEPT ![k] = n]

\* K().reset(), decorators.py line 42
AllocReset(k) ==
    /\ AllocBecomes(k, 0)
    /\ allocLast' = [kind |-> k, op |-> "reset", ret |-> 0]
    /\ issued' = [issued EXCEPT ![k] = 0]

AllocNext ==
    \E k \in AllocKinds :
        \/ AllocObtain(k)
        \/ AllocGetId(k)
        \/ AllocReset(k)

\* ------------------------------------------- the Loader's pool of codecs
\* Two Loaders made with Loader(): each has its own _serializer_pool, and
\* both hold DEFAULT_SERIALIZER_REGISTRY itself (loaders.py lines 35-39).
NLoaders == 2
Loaders == 1..NLoaders
\* The Loaders whose register is called; the last one is only asked for codecs.
Registrars == 1..(NLoaders - 1)

\* The types get_serializer is asked for, and what register binds
PoolTypes == {TypeV("list"), TypeV("tuple"), ClassA}
BoundTypes == {TypeV("tuple"), ClassA}
CodecTypes == {"ArraySerializer", "SetSerializer"}

\* serializer.__new__(serializer): the n-th object Loader l makes
NewCodec(serializer, l, n) == [class |-> serializer, loader |-> l, serial |-> n]

\* A pool that makes a new instance on every call
Pooled_always_new(pool, l, n, serializer) ==
    DictSet(pool, serializer, NewCodec(serializer, l, n + 1))

\* Loader.get_serializer, loaders.py lines 135-136: the pool of Loader l,
\* which made n instances so far, after it was asked for the codec class.
Pooled(pool, l, n, serializer) ==
    IF ~DictHas(pool, serializer)
    THEN DictSet(pool, serializer, NewCodec(serializer, l, n + 1))
    ELSE pool

NoPoolCall ==
    [loader |-> 0, op |-> "none", cls |-> None, serializer |-> "none",
     err |-> "none", ret |-> None]

PoolIdle ==
    /\ serializer_pool = [l \in Loaders |-> <<>>]
    /\ created = [l \in Loaders |-> 0]
    /\ handed = [l \in Loaders |-> <<>>]
    /\ poolLast = NoPoolCall

\* Loader l: l.register(cls, serializer)
PoolRegister(l, cls, serializer) ==
    /\ serializer_registry' = register(serializer_registry, cls, serializer)
    /\ poolLast' = [loader |-> l, op |-> "register", cls |-> cls,
                    serializer |-> serializer, err |-> "none", ret |-> None]
    /\ UNCHANGED <<serializer_pool, created, handed, call, calls, decoded,
                   idVars, regVars, concVars, schVars, allocVars, fileVars, rcVars>>

\* Loader l: l.get_serializer(cls), loaders.py lines 131-138
PoolGetSerializer(l, cls, r) ==
    LET pool == IF r.err # "none" THEN serializer_pool[l]
                ELSE Pooled(serializer_pool[l], l, created[l], r.codec)
    IN
    /\ serializer_pool' = [serializer_pool EXCEPT ![l] = pool]
    /\ created' = [created EXCEPT ![l] = IF pool = serializer_pool[l] THEN @ ELSE @ + 1]
    /\ poolLast' = [loader |-> l, op |-> "get", cls |-> cls, serializer |-> "none",
                    err |-> r.err,
                    ret |-> IF r.err # "none" THEN None ELSE DictGet(pool, r.codec)]
    /\ handed' = IF r.err # "none" \/ DictHas(handed[l], r.codec) THEN handed
                 ELSE [handed EXCEPT ![l] = DictSet(@, r.codec, DictGet(pool, r.codec))]
    /\ UNCHANGED <<codecVars, idVars, regVars, concVars, schVars, allocVars, fileVars, rcVars>>

PoolNext ==
    \/ \E l \in Registrars, cls \in BoundTypes, serializer \in CodecTypes :
            PoolRegister(l, cls, serializer)
    \/ \E l \in Loaders, cls \in PoolTypes :
            PoolGetSerializer(l, cls, get_serializer(serializer_registry, cls))

\* ------------------------------------------------- Loader.read and .write
\* What can be at a path: nothing (in a directory that can be written to), a
\* file, a file the process may not write to, a directory.
Paths == {"new", "data", "locked", "dir"}
PathKinds == {"missing", "file", "readonly", "directory"}

\* Path(path).is_file()
is_file(kind) == kind \in {"file", "readonly"}

\* A path can be written to: open(path, 'wb') would succeed.
Writable(kind) == kind \in {"missing", "file"}

\* Loader._validate_path, loaders.py lines 140-150: one check, whichever of
\* read and write calls it.
validate_path(kind) ==
    IF ~is_file(kind) THEN "BranFileException" ELSE "none"

\* open(path, mode): the exception it raises, "none" when it opens the file
open_file(kind, mode) ==
    IF kind = "directory" THEN "IsADirectoryError"
    ELSE IF mode = "rb" /\ kind = "missing" THEN "FileNotFoundError"
    ELSE IF mode = "wb" /\ kind = "readonly" THEN "PermissionError"
    ELSE "none"

NoFileCall ==
    [op |-> "none", path |-> "none", err |-> "none", opened |-> FALSE,
     ran |-> FALSE, ret |-> None]

FileIdle ==
    /\ files = [p \in Paths |->
                  IF p = "new" THEN [kind |-> "missing", bytes |-> <<>>]
                  ELSE IF p = "dir" THEN [kind |-> "directory", bytes |-> <<>>]
                  ELSE [kind |-> IF p = "data" THEN "file" ELSE "readonly",
                        bytes |-> pack_i(5)]]
    /\ fileLast = NoFileCall

FileValues == <<IntV(-7), TextHi, BoolV(TRUE), ObjV(ClassA, <<>>)>>
FileTypes == {TypeV("int"), TypeV("str")}

\* loader.read(path, cls), loaders.py lines 92-95; r is what deserialize
\* makes of the file's bytes.
FileRead(path, cls, r) ==
    LET v == validate_path(files[path].kind)
        o == open_file(files[path].kind, "rb")
        opened == v = "none" /\ o = "none"
    IN /\ fileLast' = [op |-> "read", path |-> path,
                       err |-> IF v # "none" THEN v ELSE IF o # "none" THEN o ELSE r.err,
                       opened |-> opened, ran |-> opened,
                       ret |-> IF opened /\ r.err = "none" THEN r.val ELSE None]
       /\ UNCHANGED <<files, idVars, regVars, concVars, schVars, codecVars, allocVars, poolVars, rcVars>>

\* loader.write(path, obj, tagging=tagging), loaders.py lines 106-109; r is
\* what serialize makes of obj.  open(path, 'wb') empties or creates the
\* file before serialize runs.
FileWrite(path, obj, tagging, r) ==
    LET v == validate_path(files[path].kind)
        o == open_file(files[path].kind, "wb")
        opened == v = "none" /\ o = "none"
    IN /\ fileLast' = [op |-> "write", path |-> path,
                       err |-> IF v # "none" THEN v ELSE IF o # "none" THEN o ELSE r.err,
                       opened |-> opened, ran |-> opened, ret |-> None]
       /\ files' = IF ~opened THEN files
                   ELSE [files EXCEPT ![path] =
                            [kind |-> "file",
                             bytes |-> IF r.err = "none" THEN r.bytes ELSE <<>>]]
       /\ type_registry' = IF opened THEN r.s.treg ELSE type_registry
       /\ typeId' = IF opened THEN r.s.tid ELSE typeId
       /\ UNCHANGED <<regLast, idVars, concVars, schVars, codecVars, allocVars, poolVars, rcVars>>

FileNext ==
    \/ \E path \in Paths, cls \in FileTypes :
          FileRead(path, cls,
                   Deserialize(Sch, serializer_registry, files[path].bytes, 0, cls, FALSE))
    \/ \E path \in Paths, i \in 1..Len(FileValues), tagging \in BOOLEAN :
          FileWrite(path, FileValues[i], tagging,
                    Serialize(Sch, serializer_registry, FileValues[i], tagging))

\* ---------------------------------------- register_class under threads
\* register_class is a plain function: only the Registry and allocator
\* methods it calls are wrapped by @synchronized.  A thread's call is taken
\* in steps, one for lines 263-289, one for each pass of the loop of lines
\* 291-298 and one for the loop of lines 300-301; other threads run between.
NRcThreads == 2
RcThreads == 1..NRcThreads

RcIdleThread == [pc |-> "idle", cls |-> None, fields |-> <<>>, al |-> <<>>, i |-> 0]

NoRefresh == [pc |-> "idle", classes |-> <<>>, i |-> 0]

NotSeen == [made |-> FALSE, classes |-> FALSE, key |-> None, registered |-> FALSE, raised |-> FALSE,
            fields |-> <<>>, aliases |-> <<>>]

RcIdle ==
    /\ rc = [t \in RcThreads |-> RcIdleThread]
    /\ rf = NoRefresh
    /\ seen = NotSeen

\* What a step of register_class or refresh leaves alone
RcFrame ==
    /\ refreshed' = FALSE
    /\ UNCHANGED <<schLast, regLast, idVars, concVars, codecVars, allocVars, poolVars,
                   fileVars>>

\* Thread t calls register_class(cls) and runs lines 263-289: the class and
\* its type are added, NameId is reset, the marked members are collected
\* and unwrapped.
RcStart(t, cls) ==
    /\ rc[t].pc \in {"idle", "done"}
    /\ ~RegContains(class_registry, cls)
    /\ \A u \in RcThreads : rc[u].cls # cls
    /\ LET s2 == [TypeAdd(ClassAdd(Sch, cls), cls) EXCEPT !.nid = 0]
           scan == ScanLoop(s2.members[cls], <<>>, <<>>, 1)
       IN /\ SchBecomes([s2 EXCEPT !.members[cls] = Unwrap(@)])
          /\ rc' = [rc EXCEPT ![t] = [pc |-> "fields", cls |-> cls,
                                      fields |-> scan.found, al |-> scan.al, i |-> 1]]
    /\ UNCHANGED <<rf, seen>>
    /\ RcFrame

\* One pass of the loop of lines 291-298, or the end of that loop.
RcField(t) ==
    /\ rc[t].pc = "fields"
    /\ IF rc[t].i > Len(rc[t].fields)
       THEN /\ rc' = [rc EXCEPT ![t].pc = "aliases"]
            /\ SchBecomes(Sch)
       ELSE LET step == FieldLoop(Sch, rc[t].al, rc[t].cls, <<rc[t].fields[rc[t].i]>>, 1)
            IN /\ SchBecomes(step.s)
               /\ rc' = [rc EXCEPT ![t].al = step.al, ![t].i = @ + 1]
    /\ UNCHANGED <<rf, seen>>
    /\ RcFrame

\* The loop of lines 300-301, and the return.
RcAliases(t) ==
    /\ rc[t].pc = "aliases"
    /\ SchBecomes(AliasLoop(Sch, rc[t].al, rc[t].cls, 1))
    /\ rc' = [rc EXCEPT ![t].pc = "done"]
    /\ UNCHANGED <<rf, seen>>
    /\ RcFrame

RegisterConcNext ==
    \E t \in RcThreads :
        \/ \E cls \in AllClasses : RcStart(t, cls)
        \/ RcField(t)
        \/ RcAliases(t)

\* ------------------------------------------------ refresh under threads
\* refresh is a plain function too.  One thread calls it and is followed
\* through lines 226-242 (the snapshot), line 244, lines 245-248 and, for
\* each class of the snapshot, the register_class call of line 251 up to its
\* NameId().reset() and from there to its end.  Another thread looks classes
\* and types up in between, each lookup being one Registry.get call.

\* The classes are registered while no refresh runs.
RfImport ==
    /\ rf.pc = "idle"
    /\ ImportSchemas

RfSubclass ==
    /\ rf.pc = "idle"
    /\ RegisterSubclass(ClassC)

\* refresh lines 226-242
RfSnapshot ==
    /\ rf.pc = "idle"
    /\ class_registry # <<>>
    /\ rf' = [pc |-> "clear", classes |-> Snapshot(Sch, 1), i |-> 1]
    /\ UNCHANGED <<rc, seen, schVars, regVars, idVars, concVars, codecVars, allocVars,
                   poolVars, fileVars>>

\* refresh line 244: class_registry.clear()
RfClearClasses ==
    /\ rf.pc = "clear"
    /\ SchBecomes([Sch EXCEPT !.creg = <<>>])
    /\ rf' = [rf EXCEPT !.pc = "clear types"]
    /\ UNCHANGED <<rc, seen>>
    /\ RcFrame

\* refresh lines 245-248: type_registry.clear() and the two resets
RfClearTypes ==
    /\ rf.pc = "clear types"
    /\ SchBecomes([Sch EXCEPT !.treg = <<>>, !.tid = 0, !.nid = 0])
    /\ rf' = [rf EXCEPT !.pc = "add"]
    /\ UNCHANGED <<rc, seen>>
    /\ RcFrame

\* refresh line 251, register_class lines 269-273 for the next class; the
\* refresh ends when there is none.
RfAdd ==
    /\ rf.pc = "add"
    /\ IF rf.i > Len(rf.classes)
       THEN /\ rf' = NoRefresh
            /\ SchBecomes(Sch)
            /\ refreshed' = TRUE
       ELSE /\ rf' = [rf EXCEPT !.pc = "fields"]
            /\ SchBecomes([TypeAdd(ClassAdd(Sch, rf.classes[rf.i][1]), rf.classes[rf.i][1])
                              EXCEPT !.nid = 0])
            /\ refreshed' = FALSE
    /\ UNCHANGED <<rc, seen, schLast, regLast, idVars, concVars, codecVars, allocVars,
                   poolVars, fileVars>>

\* register_class lines 275-301 for that class
RfFields ==
    /\ rf.pc = "fields"
    /\ SchBecomes(register_class(Sch, rf.classes[rf.i][1], rf.classes[rf.i][2],
                                 rf.classes[rf.i][3]).s)
    /\ rf' = [rf EXCEPT !.pc = "add", !.i = @ + 1]
    /\ UNCHANGED <<rc, seen>>
    /\ RcFrame

\* The keys the reading thread looks up
SeenKeys == AllClasses \cup {TypeV("int"), TypeV("str"), TypeV("list")}

\* The reading thread: class_registry.get(key) and the two tables of the
\* definition it gives, or type_registry.get(key).  `registered` tells
\* whether the key was in the registry when the call was made or, during a
\* refresh, when that refresh began.
RfLookup(key, classes) ==
    LET r == IF classes THEN class_registry ELSE type_registry
        before == IF rf.pc = "idle" THEN RegContains(r, key)
                  ELSE IF classes
                       THEN \E i \in 1..Len(rf.classes) : rf.classes[i][1] = key
                       ELSE \/ \E i \in 1..Len(rf.classes) : rf.classes[i][1] = key
                            \/ \E i \in 1..Len(rf.classes) :
                                 \E j \in 1..Len(rf.classes[i][2]) :
                                     rf.classes[i][2][j][2] = key
    IN /\ classes => key \in AllClasses
       /\ seen' = [made |-> TRUE, classes |-> classes, key |-> key, registered |-> before,
                   raised |-> RegGetRaises(r, key, FALSE),
                   fields |-> IF classes /\ RegContains(r, key) THEN fieldsOf[key] ELSE <<>>,
                   aliases |-> IF classes /\ RegContains(r, key) THEN aliasesOf[key] ELSE <<>>]
       /\ UNCHANGED <<rc, rf, schVars, regVars, idVars, concVars, codecVars, allocVars,
                      poolVars, fileVars>>

RefreshConcNext ==
    \/ RfImport
    \/ RfSubclass
    \/ RfSnapshot
    \/ RfClearClasses
    \/ RfClearTypes
    \/ RfAdd
    \/ RfFields
    \/ \E key \in SeenKeys, classes \in BOOLEAN : RfLookup(key, classes)

\* ------------------------------------------------------------ specifications
Idle ==
    /\ IdIdle /\ RegIdle /\ ConcIdle /\ SchIdle /\ CodecIdle
    /\ AllocIdle /\ PoolIdle /\ FileIdle /\ RcIdle

SpecId == Idle /\ [][IdNext]_vars

SpecReg == Idle /\ [][RegNext]_vars

SpecRegRemove == Idle /\ [][RegRemoveNext]_vars

SpecConc == Idle /\ [][ConcNext]_vars

\* The steps of thread t inside a call it has made.
ConcStep(t) ==
    \/ CCheck(t) \/ CAcquire(t) \/ CContains(t) \/ CSet(t)
    \/ CGet0(t) \/ CGet1(t) \/ CGet2(t)
    \/ CAdd0(t) \/ CAdd1(t) \/ CAdd1g(t) \/ CAdd2(t) \/ CAdd3(t) \/ CAdd4(t) \/ CAdd5(t)
    \/ CGenOuter(t) \/ CGenOuter1(t) \/ CGenId(t)
    \/ CLeave(t)

\* The calls thread t makes when the calls are followed to their end: the
\* first thread an autoregistering get, which calls further methods of the
\* registry and, through the generator, the allocator; the second an add,
\* which calls further methods too, or the allocator directly; any other
\* thread contends for the registry lock with a contains.
LiveMenu(t) ==
    IF t = 1
    THEN {[m |-> "get", key |-> PairKey, value |-> None, auto |-> TRUE]}
    ELSE IF t = 2
    THEN {[m |-> "add", key |-> PairKey, value |-> PairValue, auto |-> FALSE],
          [m |-> "TypeId.get_id", key |-> None, value |-> None, auto |-> FALSE]}
    ELSE {[m |-> "contains", key |-> PairKey, value |-> None, auto |-> FALSE]}

ConcNextLive ==
    \E t \in RegThreads :
        \/ \E o \in LiveMenu(t) : CCall(t, o)
        \/ ConcStep(t)

\* The threads are scheduled fairly: a thread that can take a step of its
\* call, and can do so from then on, takes one.  No thread has to make a call.
SpecConcFair ==
    Idle /\ [][ConcNextLive]_vars /\ \A t \in RegThreads : WF_vars(ConcStep(t))

SpecSchema == Idle /\ [][SchNext]_vars

SpecCodec == Idle /\ [][CodecNext]_vars

SpecUnregistered == Idle /\ [][UnregisteredNext]_vars

SpecNested == Idle /\ [][NestedNext]_vars

SpecAlloc == Idle /\ [][AllocNext]_vars

SpecPool == Idle /\ [][PoolNext]_vars

SpecRefreshConc == Idle /\ [][RefreshConcNext]_vars

SpecRegisterConc == Idle /\ [][RegisterConcNext]_vars

SpecFile == Idle /\ [][FileNext]_vars

Spec == SpecId

\* --------------------------------------------------------------------- claims
\* Thread t is executing the body of get_id or reset.
IdInside(t) == idPc[t] \in {"load", "store", "fetch", "zero"}

\* C1: N threads that each call get_id() once on the same allocator, with
\* no reset, get the values 1..N: pairwise distinct, no gaps.
C1_DistinctIds ==
    (\A t \in Threads : idPc[t] = "done" /\ idOp[t] = "get_id")
        => /\ \A t1, t2 \in Threads : t1 # t2 => idRet[t1] # idRet[t2]
           /\ {idRet[t] : t \in Threads} = 1..NThreads

\* Every entry of registry r has its reverse entry.
Mirrored(r) ==
    \A i \in 1..Len(r) : RegContains(r, r[i][2]) /\ DictGet(r, r[i][2]) = r[i][1]

\* C2: in every state of a Registry reached through add (explicit or
\* generated values), autoregistering get and clear, a key k that maps to v
\* has v present and mapping back to k.
C2_Mirrored == Mirrored(type_registry)

\* Thread t, which called contains or a plain get, is about to read the dict.
Reading(t) ==
    /\ cOp[t].m \in {"contains", "get"} /\ ~cOp[t].auto
    /\ (At(t, "contains", "b0") \/ At(t, "get", "b2"))

\* C10: while a thread executes add(k, v) or an autoregistering get(k), no
\* contains/get of another thread sees k present and v absent, or v present
\* and k absent: the dict a reader reads holds both directions or neither.
C10_PairAtomic ==
    \A t \in RegThreads :
        Reading(t) => (RegContains(creg, PairKey) <=> RegContains(creg, PairValue))

\* v is a boolean, an int, a float, a text of single-byte characters, or a
\* set, list, tuple or mapping built from such values.
RECURSIVE Plain(_)
Plain(v) ==
    \/ v[1] \in {"bool", "int", "float"}
    \/ v[1] = "str" /\ \A i \in 1..Len(v[2]) : v[2][i] < 128
    \/ v[1] \in {"set", "list", "tuple"} /\ \A i \in 1..Len(v[2]) : Plain(v[2][i])
    \/ v[1] = "dict" /\ \A i \in 1..Len(v[2]) : Plain(v[2][i][1]) /\ Plain(v[2][i][2])

\* No text and no collection in v is longer than ShortMax.
RECURSIVE Countable(_)
Countable(v) ==
    \/ v[1] \in {"bool", "int", "float"}
    \/ v[1] = "str" /\ Len(v[2]) <= ShortMax
    \/ /\ v[1] \in {"set", "list", "tuple"}
       /\ Len(v[2]) <= ShortMax
       /\ \A i \in 1..Len(v[2]) : Countable(v[2][i])
    \/ /\ v[1] = "dict"
       /\ Len(v[2]) <= ShortMax
       /\ \A i \in 1..Len(v[2]) : Countable(v[2][i][1]) /\ Countable(v[2][i][2])

\* No float in v is a NaN.
RECURSIVE NoNaN(_)
NoNaN(v) ==
    IF v[1] = "float" THEN ~IsNaN(v)
    ELSE IF v[1] \in {"set", "list", "tuple"} THEN \A i \in 1..Len(v[2]) : NoNaN(v[2][i])
    ELSE IF v[1] = "dict"
         THEN \A i \in 1..Len(v[2]) : NoNaN(v[2][i][1]) /\ NoNaN(v[2][i][2])
    ELSE TRUE

\* The serialize call raised nothing, and the deserialize call, once made,
\* raised nothing and returned a value equal to the one serialized and of
\* the same type.
RoundTrips ==
    /\ call.err = "none"
    /\ call.phase = "deserialized" =>
          /\ call.berr = "none"
          /\ PyEq(call.back, call.obj)
          /\ call.back[1] = call.obj[1]

\* C3 as stated: with tagging off, every value v that is a boolean, a 32-bit
\* integer, a float, a text of single-byte characters, or a set, list, tuple
\* or mapping built from such values, the types of whose elements are in
\* the type table, is serialized and deserialized back to an equal value of
\* the same type.
C3_AsStated ==
    (call.phase # "none" /\ ~call.tagging /\ Plain(call.obj) /\ call.known)
        => RoundTrips

\* C3, amended: the same, for values in which no text and no collection is
\* longer than 32767 (what the two-byte signed count can hold) and no float
\* is a NaN (which equals nothing, itself included).
C3_RoundTrip ==
    (/\ call.phase # "none" /\ ~call.tagging /\ call.known
     /\ Countable(call.obj) /\ NoNaN(call.obj) /\ Plain(call.obj))
        => RoundTrips

\* A list holding a list and a mapping, whose element types were all in the
\* type table, came back equal from an untagged round trip.
C3_Witness ==
    /\ call.phase = "deserialized" /\ ~call.tagging /\ call.known
    /\ call.obj[1] = "list"
    /\ \E i \in 1..Len(call.obj[2]) : call.obj[2][i][1] = "dict"
    /\ call.berr = "none"
    /\ PyEq(call.back, call.obj)

\* C4: with tagging on and no type given to deserialize, every value whose
\* type has a bound codec comes back equal and of the same type (here: for
\* the values of C3 within the two-byte counts and without NaN).
C4_TaggedRoundTrip ==
    (/\ call.phase # "none" /\ call.tagging
     /\ DictHas(serializer_registry, ValType(call.obj))
     /\ Countable(call.obj) /\ NoNaN(call.obj) /\ Plain(call.obj))
        => RoundTrips

\* C5: an instance of a registered class bound to DefaultSerializer, whose
\* registered fields hold primitives and collections, is serialized and
\* deserialized back to an instance of the class that has exactly the
\* registered fields set, each equal to the original's.
C5_StructRoundTrip ==
    LET cls == PyType(call.obj)
        names == DictKeys(fieldsOf[cls])
        attrs == call.back[2][2]
    IN (/\ call.phase # "none" /\ ~call.tagging /\ call.obj[1] = "obj"
        /\ RegContains(class_registry, cls)
        /\ DictHas(serializer_registry, cls)
        /\ DictGet(serializer_registry, cls) = "DefaultSerializer"
        /\ \A i \in 1..Len(names) :
              /\ HasAttr(Sch, call.obj, names[i])
              /\ Countable(GetAttr(Sch, call.obj, names[i]))
              /\ NoNaN(GetAttr(Sch, call.obj, names[i]))
              /\ Plain(GetAttr(Sch, call.obj, names[i])))
       => /\ call.err = "none"
          /\ call.phase = "deserialized" =>
                /\ call.berr = "none"
                /\ call.back[1] = "obj"
                /\ call.back[2][1] = call.obj[2][1]
                /\ {attrs[i][1] : i \in 1..Len(attrs)} = {names[i] : i \in 1..Len(names)}
                /\ \A i \in 1..Len(names) :
                      PyEq(DictGet(attrs, names[i]), GetAttr(Sch, call.obj, names[i]))

\* Registry r, as the type table: every entry has its reverse, a type maps
\* to an integer, and no two types map to the same one.
TypeTableOK(r) ==
    /\ Mirrored(r)
    /\ \A i \in 1..Len(r) : r[i][1][1] = "type" => r[i][2][1] = "int"
    /\ \A i, j \in 1..Len(r) :
          (r[i][1][1] = "type" /\ r[j][1][1] = "type" /\ i # j) => r[i][2] # r[j][2]

\* C6: in every state reached by register_class calls, autoregistering type
\* lookups and refresh() calls, the global type table gives distinct types
\* distinct integer ids, and each id maps back to the type it was given to.
C6_TypeIdsUnique == TypeTableOK(type_registry)

\* Types were registered by a class registration and by a lookup, and
\* refresh() has just renumbered three or more of them.
C6_Witness ==
    /\ refreshed
    /\ Cardinality({i \in 1..Len(type_registry) : type_registry[i][1][1] = "type"}) >= 3

\* C7: in every state reached by register_class and register_alias calls,
\* re-registrations included, every registered field of a class has an alias
\* in the class's alias table, and that alias maps back to the field (no two
\* fields share an alias).
C7_AliasesUnique ==
    \A c \in AllClasses : \A i \in 1..Len(fieldsOf[c]) :
        LET name == fieldsOf[c][i][1] IN
        /\ RegContains(aliasesOf[c], name)
        /\ DictGet(aliasesOf[c], DictGet(aliasesOf[c], name)) = name

\* C8: whatever was registered before, the aliases one register_class call
\* gives to the fields without an explicit alias are 1, 2, ..., m in field
\* order (fields with an explicit alias take no number), and for a class
\* registered for the first time these are the aliases its table holds.
C8_AliasNumbering ==
    \A cls \in Classes, fields \in FieldMaps, aliases \in AliasMaps :
        LET r == register_class(Sch, cls, fields, aliases)
            NoExplicit(p) == ~DictHas(r.explicit, p[1])
            auto == SelectSeq(r.fields, NoExplicit)
        IN \A j \in 1..Len(auto) :
              /\ DictGet(r.al, auto[j][1]) = IntV(j)
              /\ ~RegContains(class_registry, cls) =>
                    /\ DictGet(r.s.aliases[cls], auto[j][1]) = IntV(j)
                    /\ DictGet(r.s.aliases[cls], IntV(j)) = auto[j][1]

\* Class A (x numbered, y with the explicit alias "k") and after it class B
\* were registered: x of A has alias 1, y took no number, and x of B has
\* alias 1 again.
C8_Witness ==
    /\ ~refreshed
    /\ DictGet(aliasesOf[ClassA], NameX) = IntV(1)
    /\ DictGet(aliasesOf[ClassA], NameY) = AliasK
    /\ ~RegContains(aliasesOf[ClassA], IntV(2))
    /\ DictGet(aliasesOf[ClassB], NameX) = IntV(1)
    /\ nameId = 1

\* C11: under any interleaving of the threads every call of a registry or
\* allocator method returns (or raises): a method that calls methods guarded
\* by the same lock, the generator that runs inside add and calls the
\* allocator, and an autoregistering get never wait forever for a lock.
C11_EveryCallReturns ==
    \A t \in RegThreads : (cOp[t] # NoCall) ~> cRet[t].done

\* A thread that called get(k, autoregister=True) on an empty registry has
\* its result: the call went through get, contains, add, the generator and
\* the allocator's two wrappers, set and get again.
C11_Witness ==
    \E t \in RegThreads :
        /\ cOp[t].m = "get" /\ cOp[t].auto
        /\ cRet[t].done /\ ~cRet[t].raised
        /\ cGen > 0
        /\ cRet[t].ret[1] = "int"

\* C12: a reset() that runs while get_id() calls run excludes them: every
\* get_id() returns the value its own increment produced, so never 0.
C12_ResetExcludesGetId ==
    (\E r \in Threads : idOp[r] = "reset") =>
        \A t \in Threads :
            (idOp[t] = "get_id" /\ idPc[t] \in {"exit", "done"}) =>
                /\ idRet[t] = idTmp[t] + 1
                /\ idRet[t] # 0

\* Two dicts are equal (==): the same keys with the same values, in any order.
DictEq(a, b) ==
    /\ Len(a) = Len(b)
    /\ \A i \in 1..Len(a) : DictHas(b, a[i][1]) /\ DictGet(b, a[i][1]) = a[i][2]

\* C13: in every state reached by register_class and register_alias calls,
\* refresh() leaves the set of registered classes as it was, and each
\* class's field table (name -> type) and alias table (name <-> alias) equal
\* to what they were; the type ids may change.
C13_RefreshKeepsSchema ==
    LET r == refresh(Sch) IN
    /\ \A c \in AllClasses : RegContains(r.creg, c) <=> RegContains(class_registry, c)
    /\ \A c \in AllClasses :
          RegContains(class_registry, c) =>
              /\ DictEq(r.fields[c], fieldsOf[c])
              /\ DictEq(r.aliases[c], aliasesOf[c])

\* refresh() was called with both classes registered, class A holding the
\* explicit alias of its marker, and gave a type another id than it had.
C13_Witness ==
    /\ refreshed
    /\ \A c \in {ClassA, ClassB} : RegContains(class_registry, c)
    /\ DictHas(aliasesOf[ClassA], AliasK)
    /\ DictHas(aliasesOf[ClassB], NameX)
    /\ RegContains(type_registry, ClassB)
    /\ DictGet(type_registry, ClassB) = IntV(1)

\* The registry holds k -> v and v -> k: get(k) == v and get(v) == k.
HoldsPair(r, k, v) ==
    /\ RegContains(r, k) /\ DictGet(r, k) = v
    /\ RegContains(r, v) /\ DictGet(r, v) = k

\* C14 as stated: after add(k, v) with an explicit value v returned,
\* get(k) == v and get(v) == k, whatever the registry held before.
C14_AsStated ==
    (regLast.op = "add" /\ regLast.value # None)
        => HoldsPair(type_registry, regLast.key, regLast.value)

\* C14, amended: the same for a key k that was absent before the call.
C14_AddStoresPair ==
    (regLast.op = "add" /\ regLast.value # None /\ ~regLast.had)
        => HoldsPair(type_registry, regLast.key, regLast.value)

\* add(k, v) with an explicit v was called for an absent k on a registry
\* that held other pairs.
C14_Witness ==
    /\ regLast.op = "add" /\ regLast.value # None /\ ~regLast.had
    /\ Len(type_registry) >= 4
    /\ HoldsPair(type_registry, regLast.key, regLast.value)

\* C15: get(k, autoregister=True) on an absent key calls the generator
\* once, stores k -> v and v -> k and returns v; a get(k) on a key that is
\* present returns the stored v, calls no generator and changes nothing.
C15_AutoregisterOnce ==
    [][regLast'.op = "get" =>
          /\ (regLast'.auto /\ ~regLast'.had) =>
                /\ regLast'.generated /\ ~regLast'.raised
                /\ typeId' = typeId + 1
                /\ regLast'.ret = IntV(typeId')
                /\ HoldsPair(type_registry', regLast'.key, regLast'.ret)
          /\ regLast'.had =>
                /\ ~regLast'.generated /\ ~regLast'.raised
                /\ typeId' = typeId
                /\ type_registry' = type_registry
                /\ regLast'.ret = DictGet(type_registry, regLast'.key)]_vars

\* A get(k) on a key that an earlier autoregistering get gave the id 1
\* returned 1 again after the allocator had moved on.
C15_Witness ==
    /\ regLast.op = "get" /\ regLast.had /\ regLast.key[1] = "type"
    /\ regLast.ret = IntV(1)
    /\ typeId >= 2

\* C16: get(k) without autoregistration on an absent key raises
\* BranRegistrationException, calls no generator (no id is used up) and
\* leaves the registry as it was.
C16_GetAbsentRaises ==
    [][(regLast'.op = "get" /\ ~regLast'.auto /\ ~regLast'.had) =>
          /\ regLast'.raised /\ ~regLast'.generated
          /\ typeId' = typeId
          /\ type_registry' = type_registry]_vars

\* A get without autoregistration raised on a registry that held pairs.
C16_Witness ==
    /\ regLast.op = "get" /\ ~regLast.auto /\ regLast.raised
    /\ type_registry # <<>>
    /\ typeId > 0

\* C17: deserialize(data, tagging=True) on a stream whose leading int is not
\* in the type table raises BranSerializerException whatever cls the caller
\* supplied, and the step leaves the type table and the allocator alone.
C17_UnknownTagRaises ==
    [][(decoded'.made /\ decoded' # decoded /\ decoded'.tagging
        /\ decoded'.lead # None /\ ~decoded'.had)
       => /\ decoded'.err = "BranSerializerException"
          /\ decoded'.val = None
          /\ type_registry' = type_registry
          /\ typeId' = typeId]_vars
\* An int bound caller type was supplied for the stream of serialize(-7),
\* whose leading int no type has, while the table holds other types.
C17_Witness ==
    /\ decoded.made /\ decoded.tagging /\ decoded.cls = TypeV("int")
    /\ decoded.lead = IntV(-7) /\ ~decoded.had
    /\ decoded.err = "BranSerializerException"
    /\ type_registry # <<>>

\* C18: get_serializer(T) raises BranSerializerException for every type T
\* that has no binding in the loader's serializer_registry, and so does
\* serialize(v), with tagging or without, when the concrete type of v has
\* none (the bindings do not change once a call was made).
C18_UnboundTypeRaises ==
    /\ \A T \in Classes \cup {TypeV("int"), TypeV("object")} :
            ~DictHas(serializer_registry, T)
            => /\ get_serializer(serializer_registry, T).err = "BranSerializerException"
               /\ get_serializer(serializer_registry, T).codec = None
    /\ (call.phase # "none" /\ ~DictHas(serializer_registry, ValType(call.obj)))
       => call.err = "BranSerializerException" /\ call.bytes = <<>>
\* serialize(A(), tagging=True) was called by a loader that has a codec for
\* B and none for A: it raised, after A got its type id.
C18_Witness ==
    /\ call.phase = "serialized" /\ call.tagging
    /\ call.obj = ObjV(ClassA, <<>>)
    /\ ~DictHas(serializer_registry, ClassA)
    /\ DictHas(serializer_registry, ClassB)
    /\ call.err = "BranSerializerException"
    /\ RegContains(type_registry, ClassA)

\* C19: registering, by scanning, a subclass that declares no fields of its
\* own gives it a field table and an alias table equal to those of its
\* registered base class.
C19_SubclassInherits ==
    [][(/\ ~RegContains(class_registry, ClassC)
        /\ RegContains(class_registry', ClassC)
        /\ ~schLast'.made)
       => /\ DictEq(fieldsOf'[ClassC], fieldsOf'[Base[ClassC]])
          /\ DictEq(aliasesOf'[ClassC], aliasesOf'[Base[ClassC]])]_vars

\* C20: after register_class(C, ignore=[f]) for a subclass C of a registered
\* class, C is registered, f has no entry in C's field table and none in its
\* alias table, and every other field of the base class has in C's tables
\* the type and the alias it has in the base class's.
C20_IgnoreDropsField ==
    (schLast.made /\ schLast.ignore # None)
    => LET c == schLast.cls
           f == schLast.ignore
           base == fieldsOf[Base[c]]
       IN /\ schLast.err = "none"
          /\ RegContains(class_registry, c)
          /\ ~DictHas(fieldsOf[c], f)
          /\ ~DictHas(aliasesOf[c], f)
          /\ \A i \in 1..Len(base) :
                (base[i][1][1] = "str" /\ base[i][1] # f)
                => /\ DictGet(fieldsOf[c], base[i][1]) = base[i][2]
                   /\ DictGet(aliasesOf[c], base[i][1])
                        = DictGet(aliasesOf[Base[c]], base[i][1])

\* The tables `after` of a class hold every field the tables `before` held
\* and every field of the map `fields`, and give the fields held before the
\* alias they had.
Merged(fields, fBefore, aBefore, fAfter, aAfter) ==
    /\ \A i \in 1..Len(fBefore) :
          /\ DictHas(fAfter, fBefore[i][1])
          /\ DictGet(aAfter, fBefore[i][1]) = DictGet(aBefore, fBefore[i][1])
    /\ \A i \in 1..Len(fields) :
          /\ DictHas(fAfter, fields[i][1])
          /\ DictGet(fAfter, fields[i][1]) = ValType(fields[i][2])

\* C21: register_class(C, F2), with any alias map, on a class C registered
\* before with fields F1 leaves C's field table holding every field of F1 and
\* of F2, and every field of F1 with the alias it had (the call has no path
\* that raises).
C21_ReRegisterMerges ==
    \A cls \in AllClasses, fields \in FieldMaps \ {<<>>}, aliases \in AliasMaps :
        RegContains(class_registry, cls)
        => Merged(fields, fieldsOf[cls], aliasesOf[cls],
                  register_class(Sch, cls, fields, aliases).s.fields[cls],
                  register_class(Sch, cls, fields, aliases).s.aliases[cls])
\* Class B, registered by scanning with its field x (alias 1), was registered
\* again with the map {y, x}: it has both fields, x has alias 1 as before
\* and the type the second call gave it.
C21_Witness ==
    /\ ~refreshed
    /\ DictHas(fieldsOf[ClassB], NameY)
    /\ DictGet(fieldsOf[ClassB], NameX) = ClassB
    /\ DictGet(aliasesOf[ClassB], NameX) = IntV(1)

\* C22: register_alias(C, f, a) on a field f that has another alias (a being
\* no key of C's alias table) leaves aliases.get(f) == a and
\* aliases.get(a) == f.
C22_AliasOverwrites ==
    \A cls \in Classes, name \in {NameX, NameY}, alias \in {AliasK, AliasJ} :
        (/\ RegContains(class_registry, cls)
         /\ DictHas(aliasesOf[cls], name)
         /\ DictGet(aliasesOf[cls], name) # alias
         /\ ~DictHas(aliasesOf[cls], alias))
        => /\ DictGet(register_alias(Sch, cls, name, alias).aliases[cls], name) = alias
           /\ DictGet(register_alias(Sch, cls, name, alias).aliases[cls], alias) = name

\* C23: register_alias(C, f) with no alias, for a name f that C's alias table
\* does not hold, stores an integer alias for f and the entry from that
\* alias back to f.
C23_AliasAutogenerated ==
    \A cls \in Classes, name \in {NameX, NameY} :
        (RegContains(class_registry, cls) /\ ~DictHas(aliasesOf[cls], name))
        => /\ DictGet(register_alias(Sch, cls, name, None).aliases[cls], name)[1] = "int"
           /\ DictGet(register_alias(Sch, cls, name, None).aliases[cls],
                      DictGet(register_alias(Sch, cls, name, None).aliases[cls], name))
                = name

\* C24: a step that is no refresh() (register_class for the same or another
\* class, with fields of any type, register_alias, an autoregistering
\* lookup) leaves every type that has an id in the type table with that id.
C24_TypeIdsStable ==
    [][~refreshed'
       => \A i \in 1..Len(type_registry) :
             type_registry[i][1][1] = "type"
             => DictGet(type_registry', type_registry[i][1]) = type_registry[i][2]]_vars
\* B was registered first and has id 1; A was registered after it with a
\* field of type B and has an id of its own.
C24_Witness ==
    /\ ~refreshed
    /\ DictGet(type_registry, ClassB) = IntV(1)
    /\ DictGet(fieldsOf[ClassA], NameX) = ClassB
    /\ RegContains(type_registry, ClassA)
    /\ typeId >= 3

\* What C25 says of the state s after register_class(cls) scanned the
\* members ms: the field table of cls holds exactly the marked ones, each
\* with the type of its value (the value itself when it is a type), a type
\* the type table holds; the unmarked ones are in neither table; and the
\* class attributes hold the unwrapped values.
Scanned(cls, ms, s) ==
    /\ \A i \in 1..Len(ms) :
          IF ms[i].marked
          THEN /\ DictHas(s.fields[cls], ms[i].name)
               /\ DictGet(s.fields[cls], ms[i].name) = ValType(ms[i].val)
               /\ RegContains(s.treg, ValType(ms[i].val))
               /\ ~s.members[cls][i].marked
               /\ s.members[cls][i].val = ms[i].val
          ELSE /\ ~DictHas(s.fields[cls], ms[i].name)
               /\ ~DictHas(s.aliases[cls], ms[i].name)
               /\ s.members[cls][i] = ms[i]
    /\ \A j \in 1..Len(s.fields[cls]) :
          \E i \in 1..Len(ms) : ms[i].marked /\ ms[i].name = s.fields[cls][j][1]

\* C25 as stated: after register_class(C) with no field map, whatever was
\* registered before, C's tables are those the scan of C's declaration gives.
C25_AsStated ==
    \A cls \in AllClasses, aliases \in AliasMaps :
        Scanned(cls, Declared[cls], register_class(Sch, cls, <<>>, aliases).s)

\* C25: after register_class(C) with no explicit field map, for a class C
\* that was not registered before, C's field table holds exactly the members
\* declared on C with a field marker, each mapped to the type of its value,
\* all these types are in the type table, the unmarked members are in
\* neither table and the marked attributes hold the unwrapped values.
C25_ScanRegisters ==
    \A cls \in AllClasses, aliases \in AliasMaps :
        ~RegContains(class_registry, cls)
        => Scanned(cls, Declared[cls], register_class(Sch, cls, <<>>, aliases).s)
\* A was registered by scanning and by nothing else: x and y are its fields,
\* z is in neither table and the markers are off.
C25_Witness ==
    /\ RegContains(class_registry, ClassA)
    /\ Len(fieldsOf[ClassA]) = 2
    /\ DictGet(fieldsOf[ClassA], NameX) = TypeV("int")
    /\ DictGet(fieldsOf[ClassA], NameY) = TypeV("str")
    /\ ~DictHas(fieldsOf[ClassA], NameZ) /\ ~DictHas(aliasesOf[ClassA], NameZ)
    /\ \A i \in 1..Len(members[ClassA]) : ~members[ClassA][i].marked
    /\ RegContains(type_registry, TypeV("str"))

Grounded ==
    \A i \in 1..Len(type_registry) :
        type_registry[i][1][1] = "type"
        => \/ RegContains(class_registry, type_registry[i][1])
           \/ \E c \in AllClasses :
                 /\ RegContains(class_registry, c)
                 /\ \E j \in 1..Len(fieldsOf[c]) : fieldsOf[c][j][2] = type_registry[i][1]

C27_AsStated ==
    [][regLast'.op = "remove"
       => LET k == regLast'.key
              v == DictGet(type_registry, k)
          IN IF RegContains(type_registry, k)
             THEN /\ regLast'.ret = v
                  /\ ~RegContains(type_registry', k)
                  /\ (RegContains(type_registry, v) /\ DictGet(type_registry, v) = k)
                     => (RegContains(type_registry', v) /\ DictGet(type_registry', v) = k)
             ELSE regLast'.ret = None /\ type_registry' = type_registry]_vars

\* C27: remove(k) on a present key returns the value v that k mapped to and
\* leaves k absent, one entry fewer in the registry and, when v is not k
\* itself, the entry stored under v as it was; remove(k) on an absent key
\* returns None and changes nothing.
C27_RemoveOneWay ==
    [][regLast'.op = "remove"
       => LET k == regLast'.key
              v == DictGet(type_registry, k)
          IN IF RegContains(type_registry, k)
             THEN /\ regLast'.ret = v
                  /\ ~RegContains(type_registry', k)
                  /\ Len(type_registry') = Len(type_registry) - 1
                  /\ v # k => /\ RegContains(type_registry', v) = RegContains(type_registry, v)
                              /\ DictGet(type_registry', v) = DictGet(type_registry, v)
             ELSE regLast'.ret = None /\ type_registry' = type_registry]_vars
\* remove(int) returned 1, int is gone and 1 -> int is still there.
C27_Witness ==
    /\ regLast.op = "remove" /\ regLast.had
    /\ regLast.key = TypeV("int") /\ regLast.ret = IntV(1)
    /\ ~RegContains(type_registry, TypeV("int"))
    /\ RegContains(type_registry, IntV(1))
    /\ DictGet(type_registry, IntV(1)) = TypeV("int")

\* C28: in a sequential run of get_id() and reset() calls on Id, TypeId and
\* NameId, every get_id() returns one more than the previous get_id() of the
\* same allocator since that allocator's last reset(), and 1 when there was
\* none since its creation or reset, whatever was called on the other
\* allocators and however often the allocator was obtained again.
C28_SequentialIds ==
    [][allocLast'.op = "get_id" => allocLast'.ret = issued[allocLast'.kind] + 1]_vars

\* Id was reset after it gave an id, TypeId gave 2 and then 3 although Id
\* and NameId were used in between, and NameId is at 1.
C28_Witness ==
    /\ allocLast = [kind |-> "TypeId", op |-> "get_id", ret |-> 3]
    /\ issued = [k \in AllocKinds |-> IF k = "TypeId" THEN 3 ELSE IF k = "NameId" THEN 1 ELSE 0]
    /\ \A k \in AllocKinds : instance[k]

\* C29: a Loader's pool holds at most one instance per codec class,
\* get_serializer gives the instance of the codec class bound to the type
\* asked for, the same one on every call and for every type bound to that
\* codec class, also after register changed the binding.
C29_OnePerCodec ==
    /\ [](\A l \in Loaders : \A i, j \in 1..Len(serializer_pool[l]) :
            /\ serializer_pool[l][i][2].class = serializer_pool[l][i][1]
            /\ serializer_pool[l][i][2].class = serializer_pool[l][j][2].class => i = j)
    /\ [][(poolLast'.op = "get" /\ poolLast'.err = "none") =>
            /\ poolLast'.ret.class = DictGet(serializer_registry, poolLast'.cls)
            /\ poolLast'.ret.loader = poolLast'.loader
            /\ DictHas(handed[poolLast'.loader], poolLast'.ret.class) =>
                    poolLast'.ret = DictGet(handed[poolLast'.loader], poolLast'.ret.class)]_vars

\* Loader 1 gave out its ArraySerializer, tuple was then bound to
\* SetSerializer, and get_serializer(tuple) gave Loader 1's SetSerializer;
\* Loader 2 has an instance of its own.
C29_Witness ==
    /\ poolLast.op = "get" /\ poolLast.loader = 1 /\ poolLast.cls = TypeV("tuple")
    /\ poolLast.ret = NewCodec("SetSerializer", 1, 2)
    /\ DictGet(handed[1], "ArraySerializer") = NewCodec("ArraySerializer", 1, 1)
    /\ DictGet(serializer_pool[2], "ArraySerializer") = NewCodec("ArraySerializer", 2, 1)

\* C30: serializing, with DefaultSerializer, an object whose class has no
\* field table registered fails with BranSerializerException.
C30_NoFieldTableRaises ==
    [][(/\ calls' = calls + 1
        /\ call'.obj[1] = "obj"
        /\ DictGet(serializer_registry, PyType(call'.obj)) = "DefaultSerializer"
        /\ ~RegContains(class_registry, PyType(call'.obj)))
       => call'.err = "BranSerializerException"]_vars

\* C31: read(path, ...) fails with BranFileException exactly when no file
\* is at the path, write(path, ...) fails with BranFileException exactly when
\* the path cannot be written to, and a call that fails so neither opens nor
\* changes the file nor runs serialize or deserialize.
C31_PathValidated ==
    [][fileLast'.op # "none" =>
        LET kind == files[fileLast'.path].kind IN
        /\ fileLast'.op = "read" =>
                (fileLast'.err = "BranFileException" <=> ~is_file(kind))
        /\ fileLast'.op = "write" =>
                (fileLast'.err = "BranFileException" <=> ~Writable(kind))
        /\ fileLast'.err = "BranFileException" =>
                ~fileLast'.opened /\ ~fileLast'.ran /\ files' = files]_vars

\* C32: serializing a set, a list or a tuple with an element whose type is
\* not yet in the type table registers that type and succeeds.
C32_ElementTypesAutoregistered ==
    (call.phase # "none" /\ call.obj[1] \in {"set", "list", "tuple"} /\ ~call.known)
        => call.err = "none" /\ Known(type_registry, call.obj)

\* C33: when threads run register_class at the same time for different
\* classes, every class ends with the aliases 1..n for its n fields without
\* an explicit alias.
C33_AliasesLocalToCall ==
    \A t \in RcThreads : rc[t].pc = "done" =>
        LET cls == rc[t].cls
            auto == {i \in 1..Len(Declared[cls]) :
                        Declared[cls][i].marked /\ Declared[cls][i].alias = None}
        IN {DictGet(aliasesOf[cls], Declared[cls][i].name) : i \in auto}
               = {IntV(k) : k \in 1..Cardinality(auto)}

\* The classes of s in the order they were registered in
RegisteredInOrder(s) ==
    SelectSeq(DictKeys(s.creg), LAMBDA k : k[1] = "type")

\* The registries emptied and the allocators reset, then register_class
\* for the first n classes of `order` with the field and alias maps they
\* have in s.
RECURSIVE Rebuilt(_, _, _)
Rebuilt(s, order, n) ==
    IF n = 0
    THEN [s EXCEPT !.creg = <<>>, !.treg = <<>>, !.tid = 0, !.nid = 0,
                   !.fields = [c \in ClassDomain |-> <<>>],
                   !.aliases = [c \in ClassDomain |-> <<>>]]
    ELSE register_class(Rebuilt(s, order, n - 1), order[n],
                        s.fields[order[n]], s.aliases[order[n]]).s

\* C34: refresh() leaves the type table and every class schema exactly as
\* emptying the registries, resetting the allocators and registering every
\* class again in registration order with its field and alias maps does; a
\* second refresh() right after gives the same tables and ids as the first.
C34_RefreshRebuilds ==
    LET once == refresh(Sch) IN
    /\ once = Rebuilt(Sch, RegisteredInOrder(Sch), Len(RegisteredInOrder(Sch)))
    /\ refresh(once) = once

\* refresh() ran with B registered before A, A's x being a B with the alias
\* 'j': B has the type id 1 and refresh changes nothing any more.
C34_Witness ==
    /\ refreshed
    /\ DictGet(type_registry, ClassB) = IntV(1)
    /\ DictGet(fieldsOf[ClassA], NameX) = ClassB
    /\ DictGet(aliasesOf[ClassA], NameX) = AliasJ
    /\ refresh(Sch) = Sch

\* C35: when two threads call get(k, autoregister=True) on the type registry
\* for the same absent key and no thread adds the key or takes an id
\* otherwise, the generator runs once, both calls return the same id and
\* exactly one id maps back to k.
C35_OneIdPerKey ==
    \A t, u \in RegThreads :
        (/\ t # u
         /\ cOp[t] = [m |-> "get", key |-> PairKey, value |-> None, auto |-> TRUE]
         /\ cOp[u] = cOp[t]
         /\ cRet[t].done /\ cRet[u].done
         /\ \A w \in RegThreads : cOp[w].m \notin {"add", "TypeId.get_id"})
        => /\ cGen = 1
           /\ cRet[t].ret = cRet[u].ret
           /\ Cardinality({i \in 1..Len(creg) : creg[i][2] = PairKey}) = 1

\* C36: a lookup of a registered class or type made by another thread while
\* refresh() runs does not raise, and a class it finds has neither an empty
\* nor a shorter field or alias table than before.
C36_LookupDuringRefresh ==
    (seen.made /\ seen.registered) =>
        /\ ~seen.raised
        /\ (seen.classes /\ seen.key \in Classes /\ ~seen.raised)
              => seen.fields # <<>> /\ seen.aliases # <<>>

\* C37: register(T, codec) on one Loader binds T for that Loader only: on a
\* Loader made with the default bindings whose register was never called
\* for T, a type without a default binding, get_serializer(T) raises.
C37_BindingsPerLoader ==
    [][(/\ poolLast'.op = "get"
        /\ ~DictHas(DEFAULT_SERIALIZER_REGISTRY, poolLast'.cls)
        /\ poolLast'.loader \notin Registrars)
       => poolLast'.err = "BranSerializerException"]_vars

\* C38: a serialize(v, tagging=True) call that raises BranSerializerException
\* because no codec is bound to v's type leaves the type table and the TypeId
\* allocator as they were.
C38_FailedTagAllocatesNothing ==
    [][(/\ calls' = calls + 1
        /\ call'.phase = "serialized"
        /\ call'.tagging
        /\ ~DictHas(serializer_registry, ValType(call'.obj))
        /\ call'.err = "BranSerializerException")
       => type_registry' = type_registry /\ typeId' = typeId]_vars

\* back is an instance of orig's class that has every registered field of
\* the class set, a nested instance compared field by field and any other
\* value with ==.
RECURSIVE Restored(_, _)
Restored(orig, back) ==
    IF orig[1] # "obj" THEN PyEq(back, orig)
    ELSE LET names == DictKeys(fieldsOf[ValType(orig)])
         IN /\ back[1] = "obj"
            /\ back[2][1] = orig[2][1]
            /\ \A i \in 1..Len(names) :
                  /\ DictHas(back[2][2], names[i])
                  /\ Restored(GetAttr(Sch, orig, names[i]),
                              DictGet(back[2][2], names[i]))

\* A field of cls before the last one holds an instance of a registered
\* class that is bound to DefaultSerializer.
NestedBeforeLast(cls) ==
    \E i \in 1..(Len(fieldsOf[cls]) - 1) :
        LET t == fieldsOf[cls][i][2]
        IN /\ RegContains(class_registry, t)
           /\ DictHas(serializer_registry, t)
           /\ DictGet(serializer_registry, t) = "DefaultSerializer"

\* C39: an instance of a registered class bound to DefaultSerializer that
\* has a nested registered-struct field followed in the field table by at
\* least one more field is decoded from its own bytes without an error, to
\* an instance with every field of the outer and of the nested object
\* restored.
C39_NestedRoundTrip ==
    LET cls == PyType(call.obj)
    IN (/\ call.phase = "deserialized" /\ ~call.tagging /\ call.obj[1] = "obj"
        /\ RegContains(class_registry, cls)
        /\ DictHas(serializer_registry, cls)
        /\ DictGet(serializer_registry, cls) = "DefaultSerializer"
        /\ NestedBeforeLast(cls))
       => /\ call.berr = "none"
          /\ Restored(call.obj, call.back)

\* C9: at most one thread at a time executes inside a mutating operation of
\* one allocator (get_id, reset): a second caller waits for the lock.
C9_MutualExclusion ==
    \A t1, t2 \in Threads : (IdInside(t1) /\ IdInside(t2)) => t1 = t2
====
